---- MODULE Spec2Model ----
(***************************************************************************)
(* A model of the networking and data core of Pingo (src-tauri/src):       *)
(*   signaling.rs      the UDP signaling listener and its peer table       *)
(*   commands.rs       the orchestrator's signaling consumer and commands  *)
(*   db.rs             the Store (users, direct messages)                  *)
(*   file_transfer.rs  the chunked file transfer manager                   *)
(*   crypto.rs         key agreement and authenticated encryption          *)
(* Each subsystem has its own specification over the shared variables:     *)
(*   Spec          signaling listener over the whole message catalog       *)
(*   SpecChat      chat relay: listener, orchestrator, Store commands      *)
(*   SpecTransfer  one FileTransferManager and a remote sender             *)
(*   SpecCrypto    two CryptoManagers exchanging envelopes                 *)
(***************************************************************************)
EXTENDS Integers, Sequences, FiniteSets, TLC

VARIABLES
    sigSocket,      \* signaling.rs SignalingServer.socket: TRUE once start() bound it
    sigPeers,       \* signaling.rs SignalingServer.peers: device id -> address
    eventChannel,   \* signaling.rs event_sender/event_receiver: forwarded messages
    sigOut,         \* what the latest step sent, emitted and returned
    users,          \* db.rs table users (set of rows)
    messages,       \* db.rs table messages (set of rows)
    groups,         \* db.rs table groups (set of rows)
    groupMembers,   \* db.rs table group_members (set of rows)
    groupMessages,  \* db.rs table group_messages (set of rows)
    dbConn,         \* db.rs Database.conn: the method that holds the mutex
    transfers,      \* file_transfer.rs FileTransferManager.transfers
    fs,             \* the local file system: path -> bytes
    remoteFile,     \* the file a remote sender holds
    ftOut,          \* what the latest transfer operation returned
    chunkLog,       \* the chunks handed in since the remote file's transfer
                    \* was last registered here (history)
    receiving,      \* a receive_chunk call between its steps, when calls overlap
    keypair,        \* crypto.rs CryptoManager.device_keypair, per node
    sessions,       \* crypto.rs CryptoManager.session_keys, per node
    wire,           \* the envelope last produced or altered in transit
    cryOut,         \* what the latest crypto operation returned
    disc,           \* discovery.rs DiscoveryManager and its threads, per node
    discNet,        \* presence datagrams waiting in the nodes' sockets
    discEvents,     \* discovery.rs event channel of the local manager
    discOut,        \* what the latest discovery step emitted and returned
    bothUp,         \* seconds both managers have been up together (history)
    threads,        \* the local manager's threads by run, when runs overlap
    settings,       \* db.rs table settings: key -> value
    boot,           \* commands.rs AppState::new, per process on the Store
    issued,         \* the device ids AppState::new has returned (history)
    fileIndex,      \* file_server.rs FileServer.files: file id -> StoredFile
    srvOut,         \* what the file server answered the latest request
    devLog          \* commands.rs dev_log: the clock, LAST_DEV_LOG_WRITE, stdout,
                    \* the log file and the calls in progress

sigVars == <<sigSocket, sigPeers, eventChannel, sigOut>>
dbVars == <<users, messages, groups, groupMembers, groupMessages, dbConn>>
ftVars == <<transfers, fs, remoteFile, ftOut, chunkLog, receiving>>
cryVars == <<keypair, sessions, wire, cryOut>>
discVars == <<disc, discNet, discEvents, discOut, bothUp, threads>>
appVars == <<settings, boot, issued, fileIndex, srvOut, devLog>>
vars == <<sigVars, dbVars, ftVars, cryVars, discVars, appVars>>

\* ---------------------------------------------------------------- bounds

\* The longest plaintext handed to encrypt, in bytes.
MaxPlain == 1

\* The consumer lags the listener by at most this many datagrams: the listener
\* takes the next datagram off the socket while fewer are waiting.
MaxQueue == 1

\* Bytes per chunk.
ChunkScale == 2

\* The longest file, in bytes.
MaxFileLen == 3

\* prepare_receive runs while the downloads directory holds fewer files.
MaxDownloads == 2

\* ------------------------------------------------------- finite maps

EmptyMap == [x \in {} |-> x]

Put(f, k, v) == [x \in DOMAIN f \cup {k} |-> IF x = k THEN v ELSE f[x]]

Del(f, k) == [x \in DOMAIN f \ {k} |-> f[x]]

\* ------------------------------------------------------------ signaling

LocalId == "local"

PeerX == "X"

Ips == {"10.0.0.5", "10.0.0.9"}

SigPort == "45678"

Addr(ip, port) == [ip |-> ip, port |-> port]

Addrs == {Addr(ip, SigPort) : ip \in Ips}

\* The catalog of SignalingMessage, in declaration order.
Variants ==
    { "Offer", "Answer", "IceCandidate", "ConnectionRequest",
      "ConnectionAccepted", "ConnectionRejected", "ScreenShareInvite",
      "ScreenShareResponse", "ScreenShareEnded", "FileTransferRequest",
      "FileTransferResponse", "Ping", "Pong", "ChatMessage", "DeliveryAck",
      "ProfileUpdate", "GroupCreated", "GroupChatMessage",
      "MeetingChatMessage", "GroupMemberAdded", "GroupMemberRemoved",
      "MeetingInvite", "MeetingInviteResponse", "MeetingOffer",
      "MeetingAnswer", "MeetingIceCandidate", "MeetingChat", "MeetingLeave",
      "MeetingEnded", "MeetingScreenShare", "MeetingScreenShareInvite",
      "MeetingRejoinRequest", "MeetingParticipantList" }

\* The arms of the listener's match that yield Some(from); every other
\* variant falls to the `_ => None` arm.
ListenerMatchArms ==
    { "Offer", "Answer", "IceCandidate", "ConnectionRequest", "Ping",
      "ChatMessage", "ProfileUpdate", "GroupChatMessage", "GroupCreated",
      "MeetingChatMessage", "GroupMemberAdded", "GroupMemberRemoved",
      "ScreenShareResponse", "ScreenShareEnded", "MeetingInvite",
      "MeetingInviteResponse", "MeetingOffer", "MeetingAnswer",
      "MeetingIceCandidate", "MeetingChat", "MeetingLeave", "MeetingEnded",
      "MeetingScreenShare", "MeetingScreenShareInvite",
      "MeetingRejoinRequest", "MeetingParticipantList" }

NoPeerId == "<none>"

\* let peer_id = match &msg { ... }
PeerIdOf(msg) == IF msg.type \in ListenerMatchArms THEN msg.from ELSE NoPeerId

\* ---------------------------------------------------------------- Store

\* NULL in a column that holds a base64 text: no text has a negative symbol.
NoKey == <<-1>>

NoHolder == "<free>"

\* None in an Option<String>, NULL in a text column
NoneStr == "<none>"

NoAvatar == <<>>

Ids(T) == {r.id : r \in T}

Row(T, id) == CHOOSE r \in T : r.id = id

\* The reading of Utc::now() in the specifications that do not follow the
\* time columns of the users table.
Epoch == "t0"

\* ... DO UPDATE SET public_key = excluded.public_key: the key of the call
\* replaces the stored one, NULL included.
UpsertPeerAsUserKeyReplaced(U, id, name, pk, now_str) ==
    IF id \in Ids(U)
    THEN LET old == Row(U, id)
         IN  (U \ {old}) \cup
             {[old EXCEPT !.username = name, !.public_key = pk,
                          !.last_seen = now_str, !.is_online = TRUE]}
    ELSE U \cup {[id |-> id, username |-> name, public_key |-> pk,
                  avatar_path |-> NoAvatar, bio |-> "", designation |-> "",
                  last_seen |-> now_str, is_online |-> TRUE, created_at |-> now_str]}

\* INSERT ... VALUES (?1,?2,?1,?3,NULL,'','',?4,1,?4) ON CONFLICT(id) DO UPDATE
\* SET username, public_key = COALESCE(excluded.public_key, users.public_key),
\* last_seen, is_online = 1, with ?4 the time of the call.
\* Every writer of the table sets device_id = id, so the UNIQUE(device_id)
\* constraint never fires apart from the primary key.
UpsertPeerAsUserAt(U, id, name, pk, now_str) ==
    IF id \in Ids(U)
    THEN LET old == Row(U, id)
         IN  (U \ {old}) \cup
             {[old EXCEPT !.username = name,
                          !.public_key = IF pk = NoKey THEN old.public_key ELSE pk,
                          !.last_seen = now_str,
                          !.is_online = TRUE]}
    ELSE U \cup {[id |-> id, username |-> name, public_key |-> pk,
                  avatar_path |-> NoAvatar, bio |-> "", designation |-> "",
                  last_seen |-> now_str, is_online |-> TRUE, created_at |-> now_str]}

\* upsert_peer_as_user called at the time Epoch
UpsertPeerAsUser(U, id, name, pk) == UpsertPeerAsUserAt(U, id, name, pk, Epoch)

\* INSERT OR IGNORE a minimal row, then UPDATE users SET avatar_path.
SetUserAvatar(U, id, avatar) ==
    LET U1 == IF id \in Ids(U) THEN U
              ELSE U \cup {[id |-> id, username |-> "Peer", public_key |-> NoKey,
                            avatar_path |-> NoAvatar, bio |-> "", designation |-> "",
                            last_seen |-> NoneStr, is_online |-> FALSE,
                            created_at |-> Epoch]}
        old == Row(U1, id)
    IN  (U1 \ {old}) \cup {[old EXCEPT !.avatar_path = avatar]}

\* INSERT OR REPLACE INTO users.
CreateUser(U, row) == {r \in U : r.id # row.id} \cup {row}

\* INSERT OR REPLACE in place of INSERT OR IGNORE.
CreateMessageOrReplace(M, U, m) ==
    IF m.sender_id \notin Ids(U) \/ m.receiver_id \notin Ids(U)
    THEN [ok |-> FALSE, rows |-> M]
    ELSE [ok |-> TRUE, rows |-> {r \in M : r.id # m.id} \cup {m}]

\* INSERT OR IGNORE INTO messages: a row with the same primary key makes the
\* statement a no-op before the foreign keys are looked at; otherwise both
\* sender_id and receiver_id must reference users(id) (PRAGMA foreign_keys = ON).
CreateMessage(M, U, m) ==
    IF m.id \in Ids(M) THEN [ok |-> TRUE, rows |-> M]
    ELSE IF m.sender_id \notin Ids(U) \/ m.receiver_id \notin Ids(U)
         THEN [ok |-> FALSE, rows |-> M]
         ELSE [ok |-> TRUE, rows |-> M \cup {m}]

\* UPDATE messages SET is_read = 1 WHERE id = ?1
MarkMessageRead(M, id) ==
    {IF r.id = id THEN [r EXCEPT !.is_read = TRUE] ELSE r : r \in M}

\* UPDATE messages SET is_read = 1 WHERE receiver_id = ?1 AND sender_id = ?2
\* AND is_read = 0
MarkMessagesReadFromPeer(M, local_id, peer_id) ==
    {IF r.receiver_id = local_id /\ r.sender_id = peer_id /\ ~r.is_read
     THEN [r EXCEPT !.is_read = TRUE] ELSE r : r \in M}

\* UPDATE messages SET is_delivered = 1 WHERE id = ?1
MarkMessageDelivered(M, id) ==
    {IF r.id = id THEN [r EXCEPT !.is_delivered = TRUE] ELSE r : r \in M}

\* DELETE FROM messages WHERE id = ?1
DeleteMessage(M, id) == {r \in M : r.id # id}

\* DELETE FROM messages WHERE (sender = a AND receiver = b) OR (sender = b AND receiver = a)
DeleteAllMessagesWithPeer(M, a, b) ==
    {r \in M : ~ \/ (r.sender_id = a /\ r.receiver_id = b)
                 \/ (r.sender_id = b /\ r.receiver_id = a)}

\* UPDATE messages SET file_path = ?1, content = ?1 WHERE id = ?2
UpdateMessageFilePathAndContent(M, id, file_path) ==
    {IF r.id = id THEN [r EXCEPT !.file_path = file_path, !.content = file_path]
     ELSE r : r \in M}

\* UPDATE messages SET file_path = ?1 WHERE id = ?2
UpdateMessageFilePath(M, id, file_path) ==
    {IF r.id = id THEN [r EXCEPT !.file_path = file_path] ELSE r : r \in M}

\* DELETE FROM users WHERE id = ?1 with the foreign keys left unchecked.
DeleteUserUnchecked(U, M, id) == [ok |-> TRUE, rows |-> {r \in U : r.id # id}]

\* DELETE FROM users WHERE id = ?1: refused while a message references the row.
DeleteUser(U, M, id) ==
    IF \E r \in M : r.sender_id = id \/ r.receiver_id = id
    THEN [ok |-> FALSE, rows |-> U]
    ELSE [ok |-> TRUE, rows |-> {r \in U : r.id # id}]

\* INSERT INTO groups: fails on an existing primary key.
CreateGroup(G, g) ==
    IF g.id \in Ids(G) THEN [ok |-> FALSE, rows |-> G]
    ELSE [ok |-> TRUE, rows |-> G \cup {g}]

\* INSERT OR REPLACE INTO group_members, PRIMARY KEY (group_id, user_id),
\* FOREIGN KEY (group_id) REFERENCES groups(id).
AddGroupMember(GM, G, m) ==
    IF m.group_id \notin Ids(G) THEN [ok |-> FALSE, rows |-> GM]
    ELSE [ok |-> TRUE,
          rows |-> {r \in GM : ~(r.group_id = m.group_id /\ r.user_id = m.user_id)}
                   \cup {m}]

\* DELETE FROM group_members WHERE group_id = ?1 AND user_id = ?2
RemoveGroupMember(GM, gid, uid) ==
    {r \in GM : ~(r.group_id = gid /\ r.user_id = uid)}

\* INSERT INTO group_messages: fails on an existing id or a missing group.
SendGroupMessage(GX, G, m) ==
    IF m.id \in Ids(GX) \/ m.group_id \notin Ids(G)
    THEN [ok |-> FALSE, rows |-> GX]
    ELSE [ok |-> TRUE, rows |-> GX \cup {m}]

\* Nobody holds Database.conn.
ConnFree == [holder |-> NoHolder, group_id |-> NoHolder, done |-> 0]

\* ------------------------------------------------- signaling messages

XName == "xname"

\* A variant that carries nothing the backend looks at beyond from and to.
PlainMsg(t, from) == [type |-> t, from |-> from, to |-> LocalId]

ChatMessageMsg(from, id, content) ==
    [type |-> "ChatMessage", from |-> from, to |-> LocalId, id |-> id,
     content |-> content, message_type |-> "text", sender_name |-> XName,
     timestamp |-> "t0"]

DeliveryAckMsg(from, to, message_id) ==
    [type |-> "DeliveryAck", from |-> from, to |-> to, message_id |-> message_id]

\* avatar_url and avatar_file_id are Option<String>, avatar_file_port is
\* Option<u16>.  A string that the code splits at ':' is kept as the sequence
\* of its ':'-separated pieces (at least one piece), and NoAvatar stands for
\* None; NoneStr stands for the None of a port.
ProfileUpdateMsg(from, url, fid, fport) ==
    [type |-> "ProfileUpdate", from |-> from, to |-> LocalId, username |-> XName,
     avatar_url |-> url, avatar_file_id |-> fid, avatar_file_port |-> fport]

GroupCreatedMsg(from, gid, member_ids) ==
    [type |-> "GroupCreated", from |-> from, to |-> LocalId, id |-> gid,
     name |-> "gname", member_ids |-> member_ids,
     member_names |-> <<XName>>, created_at |-> "t0"]

GroupChatMessageMsg(from, gid, id) ==
    [type |-> "GroupChatMessage", from |-> from, to |-> LocalId, group_id |-> gid,
     id |-> id, content |-> "hi", message_type |-> "text",
     sender_name |-> XName, timestamp |-> "t0"]

GroupMemberMsg(t, from, gid, uid) ==
    [type |-> t, from |-> from, to |-> LocalId, group_id |-> gid, user_id |-> uid,
     username |-> XName]

FileId == <<"f1">>

FilePort == "18080"

\* format!("http://{}:{}/file/{}", ip, port, file_id), split at ':'
AvatarUrl(ip, port, fid) ==
    <<"http", "//" \o ip, [port |-> port, file |-> Head(fid)]>> \o Tail(fid)

\* format!("filemeta:{}:{}", file_id, port), split at ':'
AvatarPlaceholder(fid, port) == <<"filemeta">> \o fid \o <<port>>

\* str::parse::<u16>: decimal digits, leading zeros and one leading '+' allowed.
ParseU16(piece) ==
    CASE piece \in {"0", "+0", "00"} -> "0"
      [] piece \in {FilePort, "+" \o FilePort, "0" \o FilePort} -> FilePort
      [] piece \in {SigPort, "+" \o SigPort, "0" \o SigPort} -> SigPort
      [] OTHER -> NoneStr

\* the port of the placeholder as it is written, 0 or not
MetaPortAsWritten(piece, port) == IF ParseU16(piece) = NoneStr THEN port ELSE ParseU16(piece)

\* parts[2].parse::<u16>().ok().filter(|p| *p != 0).unwrap_or(port)
MetaPort(piece, port) ==
    IF ParseU16(piece) \in {NoneStr, "0"} THEN port ELSE ParseU16(piece)

\* One message of every variant of the catalog, claiming to come from `from`.
Catalog(from) ==
    {PlainMsg(t, from) :
        t \in Variants \ {"ChatMessage", "DeliveryAck", "ProfileUpdate",
                          "GroupCreated", "GroupChatMessage",
                          "GroupMemberAdded", "GroupMemberRemoved"}}
    \cup {ChatMessageMsg(from, "m1", "hi"),
          DeliveryAckMsg(from, LocalId, "m1"),
          ProfileUpdateMsg(from, NoAvatar, FileId, NoneStr),
          GroupCreatedMsg(from, "g1", <<from, LocalId>>),
          GroupChatMessageMsg(from, "g1", "gm1"),
          GroupMemberMsg("GroupMemberAdded", from, "g1", from),
          GroupMemberMsg("GroupMemberRemoved", from, "g1", from)}

\* --------------------------------------------------- signaling server

NoMsg == [type |-> NoneStr]

NoAddr == Addr(NoneStr, NoneStr)

\* What one step did: the operation, its datagram and source (listener), its
\* result, the events emitted to the UI and the datagrams sent.
Out(op, msg, src, ok, emits, sent) ==
    [op |-> op, msg |-> msg, src |-> src, ok |-> ok, emits |-> emits, sent |-> sent]

\* A send_message that finds no peer.
SendMessageNoPeer(peer_id, message) ==
    [ok |-> FALSE, err |-> "Peer not found", sent |-> <<>>]

\* A send_message that writes to the peer's usual address when it finds no
\* binding.
SendMessageUnbound(peer_id, message) ==
    IF ~sigSocket THEN [ok |-> FALSE, err |-> "Socket not initialized", sent |-> <<>>]
    ELSE [ok |-> TRUE, err |-> NoneStr,
          sent |-> <<[addr |-> IF peer_id \in DOMAIN sigPeers THEN sigPeers[peer_id]
                               ELSE Addr("10.0.0.5", SigPort),
                      msg |-> message]>>]

\* SignalingServer::send_message: the datagrams it puts on the wire.
SendMessage(peer_id, message) ==
    IF ~sigSocket THEN [ok |-> FALSE, err |-> "Socket not initialized", sent |-> <<>>]
    ELSE IF peer_id \notin DOMAIN sigPeers
         THEN [ok |-> FALSE, err |-> "Peer not found", sent |-> <<>>]
         ELSE [ok |-> TRUE, err |-> NoneStr,
               sent |-> <<[addr |-> sigPeers[peer_id], msg |-> message]>>]

\* SignalingServer::start, called by the start_signaling command, which also
\* spawns the consumer of the event channel.
StartSignaling ==
    /\ ~sigSocket
    /\ sigSocket' = TRUE
    /\ sigOut' = Out("start_signaling", NoMsg, NoAddr, TRUE, <<>>, <<>>)
    /\ UNCHANGED <<sigPeers, eventChannel, dbVars, ftVars, discVars, cryVars, appVars>>

\* The listener's verdict on a parsed datagram: "drop" (continue), "bind"
\* (record the source, then forward) or "forward".
ListenerVerdict(msg, src) ==
    LET id == PeerIdOf(msg)
    IN  IF id # NoPeerId /\ id # LocalId
        THEN IF id \in DOMAIN sigPeers
             THEN IF sigPeers[id] # src THEN "drop" ELSE "forward"
             ELSE "bind"
        ELSE "forward"

\* One iteration of the listener thread on a datagram that parses as a
\* SignalingMessage.
ListenerRecv(msg, src) ==
    LET verdict == ListenerVerdict(msg, src)
    IN  /\ sigSocket
        /\ Len(eventChannel) < MaxQueue
        /\ sigPeers' = IF verdict = "bind" THEN Put(sigPeers, msg.from, src)
                       ELSE sigPeers
        /\ eventChannel' = IF verdict = "drop" THEN eventChannel
                           ELSE Append(eventChannel, msg)
        /\ sigOut' = Out("recv", msg, src, verdict # "drop", <<>>, <<>>)
        /\ UNCHANGED <<sigSocket, dbVars, ftVars, discVars, cryVars, appVars>>

\* One iteration on a datagram that is not UTF-8 or not a SignalingMessage.
ListenerRecvMalformed ==
    /\ sigSocket
    /\ sigOut' = Out("recv_malformed", NoMsg, NoAddr, FALSE, <<>>, <<>>)
    /\ UNCHANGED <<sigSocket, sigPeers, eventChannel, dbVars, ftVars, discVars, cryVars, appVars>>

BadIp == "not-an-ip"

\* format!("{}:{}", ip, port).parse::<SocketAddr>()
ParseSocketAddr(ip, port) == IF ip \in Ips THEN Addr(ip, port) ELSE NoAddr

\* SignalingServer::register_peer through the register_peer command.
RegisterPeer(peer_id, ip, port) ==
    LET addr == ParseSocketAddr(ip, port)
    IN  /\ sigPeers' = IF addr = NoAddr THEN sigPeers ELSE Put(sigPeers, peer_id, addr)
        /\ sigOut' = Out("register_peer", NoMsg, addr, addr # NoAddr, <<>>, <<>>)
        /\ UNCHANGED <<sigSocket, eventChannel, dbVars, ftVars, discVars, cryVars, appVars>>

\* ------------------------------------ orchestrator: signaling consumer

\* The Message the ChatMessage arm builds.
IncomingMessage(msg) ==
    [id |-> msg.id, sender_id |-> msg.from, receiver_id |-> LocalId,
     content |-> msg.content, message_type |-> msg.message_type,
     file_path |-> NoneStr, is_read |-> FALSE, is_delivered |-> TRUE,
     created_at |-> msg.timestamp]

\* avatar.starts_with("filemeta:") with at least three ':'-separated parts
IsPendingAvatar(avatar) == Len(avatar) >= 3 /\ avatar[1] = "filemeta"

\* SignalingMessage::ChatMessage arm
HandleChatMessage ==
    /\ eventChannel # <<>>
    /\ Head(eventChannel).type = "ChatMessage"
    /\ LET msg == Head(eventChannel)
           from == msg.from
           U1 == UpsertPeerAsUser(users, from, msg.sender_name, NoKey)
           bound == from \in DOMAIN sigPeers
           avatar == Row(U1, from).avatar_path
           resolves == bound /\ IsPendingAvatar(avatar)
           url == AvatarUrl(sigPeers[from].ip,
                            MetaPort(avatar[3], sigPeers[from].port),
                            <<avatar[2]>>)
           U2 == IF resolves THEN SetUserAvatar(U1, from, url) ELSE U1
           stored == CreateMessage(messages, U2, IncomingMessage(msg))
           ack == SendMessage(from, DeliveryAckMsg(LocalId, from, msg.id))
           emits == (IF resolves THEN <<"peer-updated">> ELSE <<>>)
                    \o (IF bound THEN <<"peer-updated">> ELSE <<>>)
                    \o <<"chat-message-received">>
       IN  /\ users' = U2
           /\ messages' = stored.rows
           /\ sigOut' = Out("consume", msg, NoAddr, stored.ok, emits, ack.sent)
    /\ eventChannel' = Tail(eventChannel)
    /\ UNCHANGED <<sigSocket, sigPeers, groups, groupMembers, groupMessages,
                   dbConn, ftVars, discVars, cryVars, appVars>>

\* SignalingMessage::ProfileUpdate arm
HandleProfileUpdate ==
    /\ eventChannel # <<>>
    /\ Head(eventChannel).type = "ProfileUpdate"
    /\ LET msg == Head(eventChannel)
           from == msg.from
           U1 == UpsertPeerAsUser(users, from, msg.username, NoKey)
           fid == msg.avatar_file_id
           fport == msg.avatar_file_port
           avatar ==
               IF msg.avatar_url # NoAvatar THEN msg.avatar_url
               ELSE IF fid # NoAvatar
                    THEN IF from \in DOMAIN sigPeers
                         THEN AvatarUrl(sigPeers[from].ip,
                                        IF fport = NoneStr THEN sigPeers[from].port
                                        ELSE fport,
                                        fid)
                         ELSE AvatarPlaceholder(fid, IF fport = NoneStr THEN "0"
                                                     ELSE fport)
                    ELSE NoAvatar
       IN  /\ users' = IF msg.avatar_url # NoAvatar \/ fid # NoAvatar
                       THEN SetUserAvatar(U1, from, avatar) ELSE U1
           /\ sigOut' = Out("consume", msg, NoAddr, TRUE, <<"signaling-message">>, <<>>)
    /\ eventChannel' = Tail(eventChannel)
    /\ UNCHANGED <<sigSocket, sigPeers, messages, groups, groupMembers,
                   groupMessages, dbConn, ftVars, discVars, cryVars, appVars>>

\* for (i, uid) in member_ids.iter().enumerate() { db.add_group_member(..) }
RECURSIVE AddMembers(_, _, _, _)
AddMembers(GM, G, msg, i) ==
    IF i > Len(msg.member_ids) THEN GM
    ELSE LET uid == msg.member_ids[i]
             gm == [group_id |-> msg.id, user_id |-> uid,
                    username |-> IF i <= Len(msg.member_names)
                                 THEN msg.member_names[i] ELSE "",
                    role |-> IF uid = msg.from THEN "admin" ELSE "member"]
         IN  AddMembers(AddGroupMember(GM, G, gm).rows, G, msg, i + 1)

\* SignalingMessage::GroupCreated arm
HandleGroupCreated ==
    /\ eventChannel # <<>>
    /\ Head(eventChannel).type = "GroupCreated"
    /\ LET msg == Head(eventChannel)
           created == CreateGroup(groups, [id |-> msg.id, name |-> msg.name,
                                           created_by |-> msg.from,
                                           created_at |-> msg.created_at])
       IN  /\ groups' = created.rows
           /\ groupMembers' = AddMembers(groupMembers, created.rows, msg, 1)
           /\ sigOut' = Out("consume", msg, NoAddr, created.ok, <<"group-created">>, <<>>)
    /\ eventChannel' = Tail(eventChannel)
    /\ UNCHANGED <<sigSocket, sigPeers, users, messages, groupMessages,
                   dbConn, ftVars, discVars, cryVars, appVars>>

\* SignalingMessage::GroupChatMessage arm
HandleGroupChatMessage ==
    /\ eventChannel # <<>>
    /\ Head(eventChannel).type = "GroupChatMessage"
    /\ LET msg == Head(eventChannel)
           stored == SendGroupMessage(groupMessages, groups,
                        [id |-> msg.id, group_id |-> msg.group_id,
                         sender_id |-> msg.from, sender_name |-> msg.sender_name,
                         content |-> msg.content, message_type |-> msg.message_type,
                         created_at |-> msg.timestamp])
       IN  /\ users' = UpsertPeerAsUser(users, msg.from, msg.sender_name, NoKey)
           /\ groupMessages' = stored.rows
           /\ sigOut' = Out("consume", msg, NoAddr, stored.ok,
                            <<"group-message-received">>, <<>>)
    /\ eventChannel' = Tail(eventChannel)
    /\ UNCHANGED <<sigSocket, sigPeers, messages, groups, groupMembers,
                   dbConn, ftVars, discVars, cryVars, appVars>>

\* the arm as the ChatMessage arm begins: the sender becomes a user
HandleMeetingChatMessageStored ==
    /\ eventChannel # <<>>
    /\ Head(eventChannel).type = "MeetingChatMessage"
    /\ users' = UpsertPeerAsUser(users, Head(eventChannel).from, XName, NoKey)
    /\ sigOut' = Out("consume", Head(eventChannel), NoAddr, TRUE,
                     <<"meeting-chat-received">>, <<>>)
    /\ eventChannel' = Tail(eventChannel)
    /\ UNCHANGED <<sigSocket, sigPeers, messages, groups, groupMembers,
                   groupMessages, dbConn, ftVars, discVars, cryVars, appVars>>

\* SignalingMessage::MeetingChatMessage arm: an event, nothing stored
HandleMeetingChatMessage ==
    /\ eventChannel # <<>>
    /\ Head(eventChannel).type = "MeetingChatMessage"
    /\ sigOut' = Out("consume", Head(eventChannel), NoAddr, TRUE,
                     <<"meeting-chat-received">>, <<>>)
    /\ eventChannel' = Tail(eventChannel)
    /\ UNCHANGED <<sigSocket, sigPeers, dbVars, ftVars, discVars, cryVars, appVars>>

\* SignalingMessage::GroupMemberAdded arm
HandleGroupMemberAdded ==
    /\ eventChannel # <<>>
    /\ Head(eventChannel).type = "GroupMemberAdded"
    /\ LET msg == Head(eventChannel)
           added == AddGroupMember(groupMembers, groups,
                       [group_id |-> msg.group_id, user_id |-> msg.user_id,
                        username |-> msg.username, role |-> "member"])
       IN  /\ groupMembers' = added.rows
           /\ sigOut' = Out("consume", msg, NoAddr, added.ok,
                            <<"group-member-added">>, <<>>)
    /\ eventChannel' = Tail(eventChannel)
    /\ UNCHANGED <<sigSocket, sigPeers, users, messages, groups, groupMessages,
                   dbConn, ftVars, discVars, cryVars, appVars>>

\* SignalingMessage::GroupMemberRemoved arm
HandleGroupMemberRemoved ==
    /\ eventChannel # <<>>
    /\ Head(eventChannel).type = "GroupMemberRemoved"
    /\ LET msg == Head(eventChannel)
       IN  /\ groupMembers' = RemoveGroupMember(groupMembers, msg.group_id, msg.user_id)
           /\ sigOut' = Out("consume", msg, NoAddr, TRUE,
                            <<"group-member-removed">>, <<>>)
    /\ eventChannel' = Tail(eventChannel)
    /\ UNCHANGED <<sigSocket, sigPeers, users, messages, groups, groupMessages,
                   dbConn, ftVars, discVars, cryVars, appVars>>

\* The variants the consumer has an arm for.
ConsumerMatchArms ==
    {"ChatMessage", "ProfileUpdate", "GroupCreated", "GroupChatMessage",
     "MeetingChatMessage", "GroupMemberAdded", "GroupMemberRemoved"}

\* The `_` arm: the message is handed to the UI as it is.
HandleOther ==
    /\ eventChannel # <<>>
    /\ Head(eventChannel).type \notin ConsumerMatchArms
    /\ sigOut' = Out("consume", Head(eventChannel), NoAddr, TRUE,
                     <<"signaling-message">>, <<>>)
    /\ eventChannel' = Tail(eventChannel)
    /\ UNCHANGED <<sigSocket, sigPeers, dbVars, ftVars, discVars, cryVars, appVars>>

\* ------------------------------------------------ bytes and encodings

\* All sequences over S of length at most n.
SeqsUpTo(S, n) == UNION {[1..k -> S] : k \in 0..n}

Zeros(n) == [i \in 1..n |-> 0]

RECURSIVE Sum(_)
Sum(b) == IF b = <<>> THEN 0 ELSE Head(b) + Sum(Tail(b))

\* A base64 text is the sequence of its symbols: 0..63 are the alphabet in
\* order, Pad is '=', NotB64 is a character outside the alphabet.
Pad == 64

NotB64 == 65

\* BASE64.encode (engine STANDARD: padded)
RECURSIVE Base64Encode(_)
Base64Encode(b) ==
    IF Len(b) = 0 THEN <<>>
    ELSE IF Len(b) = 1 THEN <<b[1] \div 4, (b[1] % 4) * 16, Pad, Pad>>
    ELSE IF Len(b) = 2
         THEN <<b[1] \div 4, (b[1] % 4) * 16 + b[2] \div 16, (b[2] % 16) * 4, Pad>>
         ELSE <<b[1] \div 4, (b[1] % 4) * 16 + b[2] \div 16,
                (b[2] % 16) * 4 + b[3] \div 64, b[3] % 64>>
              \o Base64Encode(SubSeq(b, 4, Len(b)))

B64Err(kind) == [ok |-> FALSE, bytes |-> <<>>, err |-> kind]

\* BASE64.decode (engine STANDARD: canonical padding required, the unused low
\* bits of the last symbol must be zero).  The error is the DecodeError kind.
RECURSIVE Base64Decode(_)
Base64Decode(t) ==
    IF Len(t) = 0 THEN [ok |-> TRUE, bytes |-> <<>>, err |-> NoneStr]
    ELSE IF \E i \in 1..Len(t) : t[i] = NotB64 THEN B64Err("Invalid byte")
    ELSE IF Len(t) < 4 THEN B64Err("Invalid padding")
    ELSE LET a == t[1]
             b == t[2]
             c == t[3]
             d == t[4]
             rest == SubSeq(t, 5, Len(t))
             b1 == a * 4 + b \div 16
             b2 == (b % 16) * 16 + c \div 4
             b3 == (c % 4) * 64 + d
         IN  IF a = Pad \/ b = Pad THEN B64Err("Invalid byte")
             ELSE IF c # Pad /\ d # Pad
                  THEN LET r == Base64Decode(rest)
                       IN  IF r.ok THEN [r EXCEPT !.bytes = <<b1, b2, b3>> \o r.bytes]
                           ELSE r
             ELSE IF rest # <<>> \/ (c = Pad /\ d # Pad) THEN B64Err("Invalid byte")
             ELSE IF c = Pad
                  THEN IF b % 16 = 0 THEN [ok |-> TRUE, bytes |-> <<b1>>, err |-> NoneStr]
                       ELSE B64Err("Invalid last symbol")
                  ELSE IF c % 4 = 0 THEN [ok |-> TRUE, bytes |-> <<b1, b2>>, err |-> NoneStr]
                       ELSE B64Err("Invalid last symbol")

\* SHA-256 is taken as collision free: the digest of a byte string is a term
\* that names it.
Sha256(bytes) == [sha256 |-> bytes]

\* --------------------------------------------------------------- crypto

\* const NONCE_SIZE: usize = 12
NONCE_SIZE == 12

\* X25519 is replaced by exponentiation in the multiplicative group mod 23
\* with base 5, which keeps what the code relies on: a public key is a
\* function of the secret, and both sides of an exchange compute one value.
RECURSIVE PowMod(_, _)
PowMod(g, e) == IF e = 0 THEN 1 ELSE (g * PowMod(g, e - 1)) % 23

\* The secrets StaticSecret::random_from_rng may draw.
Secrets == {2, 3}

\* PublicKey::from(&secret), as its 32 bytes
PublicKeyOf(secret) == <<PowMod(5, secret)>> \o Zeros(31)

\* A key agreement that ignores the peer's key.
DiffieHellmanOwnKey(secret, peer_public) == <<PowMod(5, secret)>> \o Zeros(31)

\* secret.diffie_hellman(&peer_public), as its 32 bytes
DiffieHellman(secret, peer_public) == <<PowMod(peer_public[1], secret)>> \o Zeros(31)

\* The session key establish_session derives: SHA-256 of the DH output.
DeriveSessionKey(secret, peer_public) == Sha256(DiffieHellman(secret, peer_public))

\* AES-256-GCM is replaced by an authenticated cipher of the same shape: the
\* body is the plaintext masked by a pad that depends on key and nonce, and
\* the tag (3 bytes standing for GCM's 16) names the key, the nonce and the
\* body, so that opening under another key or nonce, or a changed body, fails.
KeyPad(key, nonce) == key.sha256[1] + nonce[1]

AeadTag(key, nonce, body) ==
    <<key.sha256[1], nonce[1], (Sum(body) + Len(body)) % 256>>

\* cipher.encrypt(nonce, plaintext)
AeadSeal(key, nonce, plaintext) ==
    LET body == [i \in 1..Len(plaintext) |-> (plaintext[i] + KeyPad(key, nonce)) % 256]
    IN  body \o AeadTag(key, nonce, body)

\* A cipher that opens without looking at the tag.
AeadOpenUnchecked(key, nonce, ciphertext) ==
    LET n == IF Len(ciphertext) < 3 THEN 0 ELSE Len(ciphertext) - 3
    IN  [ok |-> TRUE,
         bytes |-> [i \in 1..n |-> (ciphertext[i] + 512 - KeyPad(key, nonce)) % 256]]

\* cipher.decrypt(nonce, ciphertext): the plaintext, or an opaque aead::Error
AeadOpen(key, nonce, ciphertext) ==
    IF Len(ciphertext) < 3 THEN [ok |-> FALSE, bytes |-> <<>>]
    ELSE LET body == SubSeq(ciphertext, 1, Len(ciphertext) - 3)
             tag == SubSeq(ciphertext, Len(ciphertext) - 2, Len(ciphertext))
         IN  IF tag # AeadTag(key, nonce, body) THEN [ok |-> FALSE, bytes |-> <<>>]
             ELSE [ok |-> TRUE,
                   bytes |-> [i \in 1..Len(body) |->
                                 (body[i] + 512 - KeyPad(key, nonce)) % 256]]

\* The two devices, each with its own CryptoManager; a peer is named by its
\* device id.
Nodes == {LocalId, PeerX}

Other(n) == IF n = LocalId THEN PeerX ELSE LocalId

\* The nonces fill_bytes may draw.
Nonces == {<<1>> \o Zeros(NONCE_SIZE - 1), <<2>> \o Zeros(NONCE_SIZE - 1)}

Plaintexts == SeqsUpTo({0, 255}, MaxPlain)

\* get_public_key / the value generate_keypair returns
PublicKeyB64(kp) == Base64Encode(kp.public_key)

\* Texts a caller may pass as peer_public_key_b64: the keys the devices can
\* have, a key of 31 bytes, and a text that is not base64.
PeerKeyTexts ==
    {Base64Encode(PublicKeyOf(k)) : k \in Secrets}
    \cup {Base64Encode(Zeros(31)), <<NotB64>>}

\* What a crypto operation returned.
CryRet(op, node, peer, ok, value, err) ==
    [op |-> op, node |-> node, peer |-> peer, ok |-> ok, value |-> value, err |-> err]

\* struct DeviceKeyPair
DeviceKeyPair(secret) == [secret_key |-> secret, public_key |-> PublicKeyOf(secret)]

\* CryptoManager::generate_keypair
GenerateKeypair(n, secret) ==
    /\ keypair' = Put(keypair, n, DeviceKeyPair(secret))
    /\ cryOut' = CryRet("generate_keypair", n, NoneStr, TRUE,
                        PublicKeyB64(DeviceKeyPair(secret)), NoneStr)
    /\ UNCHANGED <<sessions, wire, sigVars, dbVars, ftVars, discVars, appVars>>

\* CryptoManager::establish_session.  own_public_key is not a field of
\* SessionKey: it records, for the properties, the device key the session was
\* derived under.
EstablishSession(n, peer_id, peer_public_key_b64) ==
    LET decoded == Base64Decode(peer_public_key_b64)
        fail(e) == /\ cryOut' = CryRet("establish_session", n, peer_id, FALSE, <<>>, e)
                   /\ UNCHANGED sessions
    IN  /\ IF ~decoded.ok THEN fail(decoded.err)
           ELSE IF Len(decoded.bytes) # 32 THEN fail("Invalid peer public key length")
           ELSE IF n \notin DOMAIN keypair THEN fail("No keypair generated")
           ELSE /\ sessions' =
                     Put(sessions, n,
                         Put(IF n \in DOMAIN sessions THEN sessions[n] ELSE EmptyMap,
                             peer_id,
                             [shared_secret |->
                                  DeriveSessionKey(keypair[n].secret_key, decoded.bytes),
                              peer_public_key |-> decoded.bytes,
                              own_public_key |-> keypair[n].public_key]))
                /\ cryOut' = CryRet("establish_session", n, peer_id, TRUE, <<>>, NoneStr)
        /\ UNCHANGED <<keypair, wire, sigVars, dbVars, ftVars, discVars, appVars>>

HasSession(n, peer_id) == n \in DOMAIN sessions /\ peer_id \in DOMAIN sessions[n]

\* CryptoManager::encrypt.  origin is not part of EncryptedEnvelope: it
\* records, for the properties, who sealed what under which key and what the
\* network did to the envelope since ("none": it is as it was sealed).
Encrypt(n, peer_id, plaintext, nonce_bytes) ==
    /\ IF ~HasSession(n, peer_id)
       THEN /\ cryOut' = CryRet("encrypt", n, peer_id, FALSE, <<>>,
                                "No session established with peer")
            /\ UNCHANGED wire
       ELSE /\ wire' =
                 [nonce |-> Base64Encode(nonce_bytes),
                  ciphertext |-> Base64Encode(AeadSeal(sessions[n][peer_id].shared_secret,
                                                       nonce_bytes, plaintext)),
                  sender_public_key |-> IF n \in DOMAIN keypair
                                        THEN PublicKeyB64(keypair[n]) ELSE <<>>,
                  origin |-> [by |-> n, to |-> peer_id, plaintext |-> plaintext,
                              key |-> sessions[n][peer_id].shared_secret,
                              tamper |-> "none"]]
            /\ cryOut' = CryRet("encrypt", n, peer_id, TRUE, <<>>, NoneStr)
    /\ UNCHANGED <<keypair, sessions, sigVars, dbVars, ftVars, discVars, appVars>>

\* the session_keys map of one CryptoManager
SessionsOf(n) == IF n \in DOMAIN sessions THEN sessions[n] ELSE EmptyMap

\* Result<Vec<u8>, String>
CryOk(bytes) == [ok |-> TRUE, value |-> bytes, err |-> NoneStr]

CryErr(e) == [ok |-> FALSE, value |-> <<>>, err |-> e]

\* A decrypt that takes the envelope's sender_public_key for the peer's key:
\* an envelope naming another key than the session's is not opened.
DecryptEnvelopeBySenderKey(S, peer_id, envelope) ==
    LET nonce == Base64Decode(envelope.nonce)
        ciphertext == Base64Decode(envelope.ciphertext)
        sender == Base64Decode(envelope.sender_public_key)
        opened == AeadOpen(S[peer_id].shared_secret, nonce.bytes, ciphertext.bytes)
    IN  IF peer_id \notin DOMAIN S THEN CryErr("No session established with peer")
        ELSE IF ~sender.ok \/ sender.bytes # S[peer_id].peer_public_key
        THEN CryErr("Decryption failed - invalid ciphertext or key")
        ELSE IF ~nonce.ok THEN CryErr(nonce.err)
        ELSE IF Len(nonce.bytes) # NONCE_SIZE THEN CryErr("Invalid nonce length")
        ELSE IF ~ciphertext.ok THEN CryErr(ciphertext.err)
        ELSE IF ~opened.ok THEN CryErr("Decryption failed - invalid ciphertext or key")
        ELSE CryOk(opened.bytes)

\* CryptoManager::decrypt over the session map S: what it returns
DecryptEnvelope(S, peer_id, envelope) ==
    LET nonce == Base64Decode(envelope.nonce)
        ciphertext == Base64Decode(envelope.ciphertext)
        opened == AeadOpen(S[peer_id].shared_secret, nonce.bytes, ciphertext.bytes)
    IN  IF peer_id \notin DOMAIN S THEN CryErr("No session established with peer")
        ELSE IF ~nonce.ok THEN CryErr(nonce.err)
        ELSE IF Len(nonce.bytes) # NONCE_SIZE THEN CryErr("Invalid nonce length")
        ELSE IF ~ciphertext.ok THEN CryErr(ciphertext.err)
        ELSE IF ~opened.ok THEN CryErr("Decryption failed - invalid ciphertext or key")
        ELSE CryOk(opened.bytes)

\* CryptoManager::decrypt of the envelope on the wire
Decrypt(n, peer_id) ==
    LET result == DecryptEnvelope(SessionsOf(n), peer_id, wire)
    IN  /\ wire # NoMsg
        /\ cryOut' = CryRet("decrypt", n, peer_id, result.ok, result.value, result.err)
        /\ UNCHANGED <<keypair, sessions, wire, sigVars, dbVars, ftVars, discVars, appVars>>

\* the 32 bytes of a secret key
SecretBytes(secret) == <<secret>> \o Zeros(31)

\* CryptoManager::load_keypair: both texts must decode to 32 bytes; the two
\* keys are stored as given
LoadKeypair(n, secret_b64, public_b64) ==
    LET secret == Base64Decode(secret_b64)
        public == Base64Decode(public_b64)
        fail(e) == /\ cryOut' = CryRet("load_keypair", n, NoneStr, FALSE, <<>>, e)
                   /\ UNCHANGED keypair
    IN  /\ IF ~secret.ok THEN fail(secret.err)
           ELSE IF Len(secret.bytes) # 32 THEN fail("Invalid secret key length")
           ELSE IF ~public.ok THEN fail(public.err)
           ELSE IF Len(public.bytes) # 32 THEN fail("Invalid public key length")
           ELSE /\ keypair' = Put(keypair, n, [secret_key |-> secret.bytes[1],
                                               public_key |-> public.bytes])
                /\ cryOut' = CryRet("load_keypair", n, NoneStr, TRUE, <<>>, NoneStr)
        /\ UNCHANGED <<sessions, wire, sigVars, dbVars, ftVars, discVars, appVars>>

\* CryptoManager::remove_session
RemoveSession(n, peer_id) ==
    /\ sessions' = IF n \in DOMAIN sessions
                   THEN [sessions EXCEPT ![n] = Del(sessions[n], peer_id)]
                   ELSE sessions
    /\ cryOut' = CryRet("remove_session", n, peer_id, TRUE, <<>>, NoneStr)
    /\ UNCHANGED <<keypair, wire, sigVars, dbVars, ftVars, discVars, appVars>>

\* CryptoManager::clear_sessions
ClearSessions(n) ==
    /\ sessions' = IF n \in DOMAIN sessions THEN [sessions EXCEPT ![n] = EmptyMap]
                   ELSE sessions
    /\ cryOut' = CryRet("clear_sessions", n, NoneStr, TRUE, <<>>, NoneStr)
    /\ UNCHANGED <<keypair, wire, sigVars, dbVars, ftVars, discVars, appVars>>

\* The texts an envelope may carry as sender_public_key: a device's key, a
\* key of the wrong length, a text that is not base64, and the empty text
\* encrypt writes without a keypair.
SenderKeyTexts == PeerKeyTexts \cup {<<>>}

\* The envelope reaches the receiver with another sender_public_key.
RewriteSenderKey(text) ==
    /\ wire # NoMsg
    /\ wire' = [wire EXCEPT !.sender_public_key = text]
    /\ cryOut' = CryRet("rewrite", NoneStr, NoneStr, TRUE, <<>>, NoneStr)
    /\ UNCHANGED <<keypair, sessions, sigVars, dbVars, ftVars, discVars, appVars>>

\* What the network may do to the envelope between encrypt and decrypt.
TamperKinds ==
    {"flip", "truncate", "other nonce", "short nonce", "nonce not base64",
     "ciphertext not base64"}

Tampered(env, kind) ==
    LET ct == Base64Decode(env.ciphertext).bytes
        nonce == Base64Decode(env.nonce).bytes
    IN  CASE kind = "flip" ->
               [env EXCEPT !.ciphertext =
                    Base64Encode([ct EXCEPT ![1] = (ct[1] + 1) % 256])]
          [] kind = "truncate" ->
               [env EXCEPT !.ciphertext = Base64Encode(SubSeq(ct, 1, 2))]
          [] kind = "other nonce" ->
               [env EXCEPT !.nonce =
                    Base64Encode(CHOOSE other \in Nonces : other # nonce)]
          [] kind = "short nonce" ->
               [env EXCEPT !.nonce = Base64Encode(Zeros(NONCE_SIZE - 1))]
          [] kind = "nonce not base64" -> [env EXCEPT !.nonce = <<NotB64>>]
          [] kind = "ciphertext not base64" -> [env EXCEPT !.ciphertext = <<NotB64>>]

Tamper(kind) ==
    /\ wire # NoMsg
    /\ wire.origin.tamper = "none"
    /\ wire' = [Tampered(wire, kind) EXCEPT !.origin.tamper = kind]
    /\ cryOut' = CryRet("tamper", NoneStr, NoneStr, TRUE, <<>>, NoneStr)
    /\ UNCHANGED <<keypair, sessions, sigVars, dbVars, ftVars, discVars, appVars>>

\* -------------------------------------------------------- file transfer

\* const CHUNK_SIZE: the model's chunk is ChunkScale bytes where the source's
\* is 64 KiB; offsets, chunk counts and remainders are computed alike.
CHUNK_SIZE == ChunkScale

TransferIds == {"t1"}

\* The id the remote sender registered its file under.
RemoteId == "t1"

FileBytes == {0, 1}

Files == SeqsUpTo(FileBytes, MaxFileLen)

\* A file name is the sequence of its characters, a path a directory and a
\* file name.
FileName == <<"a", ".", "b">>

DownloadsDir == "Downloads/Pingo"

SourcePath == [dir |-> "home", name |-> FileName]

\* The file this device offers for sending.
LocalFile == <<1, 0, 1>>

LastDot(name) ==
    LET dots == {i \in 1..Len(name) : name[i] = "."}
    IN  IF dots = {} THEN 0 ELSE CHOOSE i \in dots : \A j \in dots : j <= i

\* Path::file_stem(..).unwrap_or("file")
FileStem(name) ==
    IF name = <<>> THEN <<"f", "i", "l", "e">>
    ELSE IF LastDot(name) <= 1 THEN name
    ELSE SubSeq(name, 1, LastDot(name) - 1)

\* Path::extension(..).unwrap_or(d)
Extension(name, d) ==
    IF LastDot(name) <= 1 THEN d ELSE SubSeq(name, LastDot(name) + 1, Len(name))

FtOk(value) == [ok |-> TRUE, value |-> value, err |-> NoneStr]

FtErr(err) == [ok |-> FALSE, value |-> <<>>, err |-> err]

FtRet(op, id, arg, r) ==
    [op |-> op, id |-> id, arg |-> arg, ok |-> r.ok, value |-> r.value, err |-> r.err]

HexChars == <<"0", "1", "2", "3", "4", "5", "6", "7",
              "8", "9", "a", "b", "c", "d", "e", "f">>

\* hex_encode: two lower-case digits per byte
HexEncode(bytes) ==
    [i \in 1..(2 * Len(bytes)) |->
        IF i % 2 = 1 THEN HexChars[(bytes[(i + 1) \div 2] \div 16) + 1]
        ELSE HexChars[(bytes[i \div 2] % 16) + 1]]

\* calculate_checksum: the digest term carries the hashed bytes, and these
\* are what hex_encode formats.
CalculateChecksum(data) == HexEncode(Sha256(data).sha256)

\* calculate_file_checksum: the 8 KiB reads feed one hasher, so the digest
\* is that of the whole content.
CalculateFileChecksum(F, path) ==
    IF path \in DOMAIN F THEN FtOk(CalculateChecksum(F[path]))
    ELSE FtErr("No such file or directory")

\* ((file_size as f64) / (CHUNK_SIZE as f64)).ceil() as u32, exact for the
\* sizes of the model
TotalChunks(file_size) == (file_size + CHUNK_SIZE - 1) \div CHUNK_SIZE

\* FileMetadata as prepare_send returns it
FileMetadataOf(path, bytes, transfer_id) ==
    [transfer_id |-> transfer_id,
     file_name |-> path.name,
     file_size |-> Len(bytes),
     file_type |-> Extension(path.name, <<"b", "i", "n">>),
     total_chunks |-> TotalChunks(Len(bytes)),
     checksum |-> CalculateChecksum(bytes)]

\* TransferState
TransferStateOf(meta, is_sender, file_path) ==
    [transfer_id |-> meta.transfer_id,
     file_name |-> meta.file_name,
     file_size |-> meta.file_size,
     total_chunks |-> meta.total_chunks,
     received_chunks |-> [i \in 1..meta.total_chunks |-> FALSE],
     is_sender |-> is_sender,
     is_complete |-> FALSE,
     file_path |-> file_path,
     checksum |-> meta.checksum]

\* seek to chunk_index * CHUNK_SIZE, read up to CHUNK_SIZE bytes, truncate to
\* the bytes read (a regular file is read in full up to its end)
ReadChunk(bytes, chunk_index) ==
    LET offset == chunk_index * CHUNK_SIZE
        last == IF offset + CHUNK_SIZE < Len(bytes) THEN offset + CHUNK_SIZE
                ELSE Len(bytes)
    IN  SubSeq(bytes, offset + 1, last)

\* FileChunk as get_chunk returns it
FileChunkOf(bytes, transfer_id, chunk_index) ==
    [transfer_id |-> transfer_id,
     chunk_index |-> chunk_index,
     data |-> Base64Encode(ReadChunk(bytes, chunk_index)),
     checksum |-> CalculateChecksum(ReadChunk(bytes, chunk_index))]

\* seek then write_all, ignoring where the bytes belong
WriteAtStart(bytes, offset, data) ==
    [i \in 1..(IF Len(data) > Len(bytes) THEN Len(data) ELSE Len(bytes)) |->
        IF i <= Len(data) THEN data[i] ELSE bytes[i]]

\* seek(SeekFrom::Start(offset)) then write_all(data): nothing is written for
\* empty data; a write past the end leaves a hole of zeros
WriteAt(bytes, offset, data) ==
    IF data = <<>> THEN bytes
    ELSE [i \in 1..(IF offset + Len(data) > Len(bytes) THEN offset + Len(data)
                    ELSE Len(bytes)) |->
            IF i > offset /\ i <= offset + Len(data) THEN data[i - offset]
            ELSE IF i <= Len(bytes) THEN bytes[i]
            ELSE 0]

\* the comparison of receive_chunk, passed by every chunk
ChecksumMatchesAlways(data, checksum) == TRUE

\* calculated_checksum != chunk.checksum, negated
ChecksumMatches(data, checksum) == CalculateChecksum(data) = checksum

\* the bitmap update of receive_chunk, lost
SetReceivedNever(received_chunks, chunk_index) == received_chunks

\* if chunk_index < received_chunks.len() { received_chunks[chunk_index] = true }
SetReceived(received_chunks, chunk_index) ==
    IF chunk_index < Len(received_chunks)
    THEN [received_chunks EXCEPT ![chunk_index + 1] = TRUE]
    ELSE received_chunks

\* get_missing_chunks: the indices, in order, whose entry is false; empty for
\* an unknown id
MissingChunks(T, transfer_id) ==
    IF transfer_id \in DOMAIN T
    THEN LET received == T[transfer_id].received_chunks
             indices == [i \in 1..Len(received) |-> i - 1]
         IN  SelectSeq(indices, LAMBDA i : ~received[i + 1])
    ELSE <<>>

NoChunks == [delivered |-> {}, acked |-> {}]

\* no receive_chunk call is between its steps
NotReceiving == [pc |-> "idle", chunk |-> <<>>, file_path |-> <<>>, gone |-> FALSE]

\* chunkLog once a transfer is registered under transfer_id
Registered(transfer_id) == IF transfer_id = RemoteId THEN NoChunks ELSE chunkLog

\* FileTransferManager::prepare_send
PrepareSend(file_path, transfer_id) ==
    IF file_path \notin DOMAIN fs
    THEN /\ ftOut' = FtRet("prepare_send", transfer_id, file_path,
                           FtErr("No such file or directory"))
         /\ UNCHANGED <<transfers, fs, remoteFile, receiving, chunkLog, sigVars, dbVars, cryVars, discVars, appVars>>
    ELSE LET meta == FileMetadataOf(file_path, fs[file_path], transfer_id)
         IN  /\ transfers' = Put(transfers, transfer_id,
                                 TransferStateOf(meta, TRUE, file_path))
             /\ ftOut' = FtRet("prepare_send", transfer_id, file_path, FtOk(meta))
             /\ chunkLog' = Registered(transfer_id)
             /\ UNCHANGED <<fs, remoteFile, receiving, sigVars, dbVars, cryVars, discVars, appVars>>

Digits == <<"0", "1", "2", "3", "4", "5", "6", "7", "8", "9">>

\* the {} of format! for an integer
RECURSIVE Decimal(_)
Decimal(n) ==
    IF n < 10 THEN <<Digits[n + 1]>>
    ELSE Decimal(n \div 10) \o <<Digits[(n % 10) + 1]>>

\* format!("{} ({})", stem, counter) or format!("{} ({}).{}", stem, counter, ext)
Numbered(file_name, counter) ==
    IF Extension(file_name, <<>>) = <<>>
    THEN FileStem(file_name) \o <<" ", "(">> \o Decimal(counter) \o <<")">>
    ELSE FileStem(file_name) \o <<" ", "(">> \o Decimal(counter) \o <<")", ".">>
         \o Extension(file_name, <<>>)

\* the while file_path.exists() loop of prepare_receive
RECURSIVE UniquePath(_, _, _, _)
UniquePath(F, file_name, file_path, counter) ==
    IF file_path \notin DOMAIN F THEN file_path
    ELSE UniquePath(F, file_name,
                    [dir |-> DownloadsDir, name |-> Numbered(file_name, counter)],
                    counter + 1)

Downloads(F) == {p \in DOMAIN F : p.dir = DownloadsDir}

\* FileTransferManager::prepare_receive
PrepareReceive(metadata) ==
    LET file_path == UniquePath(fs, metadata.file_name,
                                [dir |-> DownloadsDir, name |-> metadata.file_name], 1)
    IN  /\ Cardinality(Downloads(fs)) < MaxDownloads
        /\ fs' = Put(fs, file_path, Zeros(metadata.file_size))
        /\ transfers' = Put(transfers, metadata.transfer_id,
                            TransferStateOf(metadata, FALSE, file_path))
        /\ ftOut' = FtRet("prepare_receive", metadata.transfer_id, metadata,
                          FtOk(file_path))
        /\ chunkLog' = Registered(metadata.transfer_id)
        /\ UNCHANGED <<remoteFile, receiving, sigVars, dbVars, cryVars, discVars, appVars>>

\* FileTransferManager::get_chunk
GetChunk(transfer_id, chunk_index) ==
    /\ ftOut' = FtRet("get_chunk", transfer_id, chunk_index,
           IF transfer_id \notin DOMAIN transfers THEN FtErr("Transfer not found")
           ELSE IF transfers[transfer_id].file_path \notin DOMAIN fs
                THEN FtErr("No such file or directory")
                ELSE FtOk(FileChunkOf(fs[transfers[transfer_id].file_path],
                                      transfer_id, chunk_index)))
    /\ UNCHANGED <<transfers, fs, remoteFile, receiving, chunkLog, sigVars, dbVars, cryVars, discVars, appVars>>

ChunkAck(chunk, success) ==
    [transfer_id |-> chunk.transfer_id, chunk_index |-> chunk.chunk_index,
     success |-> success]

\* FileTransferManager::receive_chunk
ReceiveChunk(chunk) ==
    LET id == chunk.transfer_id
        index == chunk.chunk_index
        decoded == Base64Decode(chunk.data)
        data == decoded.bytes
        handed == IF chunk = FileChunkOf(remoteFile, RemoteId, index)
                  THEN [chunkLog EXCEPT !.delivered = @ \cup {index}]
                  ELSE chunkLog
        Return(r) == ftOut' = FtRet("receive_chunk", id, chunk, r)
    IN  /\ UNCHANGED <<remoteFile, receiving, sigVars, dbVars, cryVars, discVars, appVars>>
        /\ IF ~decoded.ok
           THEN /\ Return(FtErr(decoded.err))
                /\ chunkLog' = handed
                /\ UNCHANGED <<transfers, fs>>
           ELSE IF ~ChecksumMatches(data, chunk.checksum)
           THEN /\ Return(FtOk(ChunkAck(chunk, FALSE)))
                /\ chunkLog' = handed
                /\ UNCHANGED <<transfers, fs>>
           ELSE IF id \notin DOMAIN transfers
           THEN /\ Return(FtErr("Transfer not found"))
                /\ chunkLog' = handed
                /\ UNCHANGED <<transfers, fs>>
           ELSE IF transfers[id].file_path \notin DOMAIN fs
           THEN /\ Return(FtErr("No such file or directory"))
                /\ chunkLog' = handed
                /\ UNCHANGED <<transfers, fs>>
           ELSE /\ fs' = [fs EXCEPT ![transfers[id].file_path] =
                              WriteAt(@, index * CHUNK_SIZE, data)]
                /\ transfers' = [transfers EXCEPT ![id].received_chunks =
                                     SetReceived(@, index)]
                /\ Return(FtOk(ChunkAck(chunk, TRUE)))
                /\ chunkLog' = [handed EXCEPT !.acked = @ \cup {index}]

\* receive_chunk called while cancel_transfer may run on another thread, in
\* the steps between which the transfers lock is free.  First step: the data
\* is decoded and its checksum compared, and under the read lock the
\* transfer's file_path is copied.
ReceiveChunkLookup(chunk) ==
    LET id == chunk.transfer_id
        decoded == Base64Decode(chunk.data)
        Return(r) == ftOut' = FtRet("receive_chunk", id, chunk, r)
    IN  /\ receiving.pc = "idle"
        /\ UNCHANGED <<transfers, fs, remoteFile, chunkLog, sigVars, dbVars, cryVars,
                       discVars, appVars>>
        /\ IF ~decoded.ok
           THEN Return(FtErr(decoded.err)) /\ receiving' = NotReceiving
           ELSE IF ~ChecksumMatches(decoded.bytes, chunk.checksum)
           THEN Return(FtOk(ChunkAck(chunk, FALSE))) /\ receiving' = NotReceiving
           ELSE IF id \notin DOMAIN transfers
           THEN Return(FtErr("Transfer not found")) /\ receiving' = NotReceiving
           ELSE /\ receiving' = [pc |-> "open", chunk |-> chunk,
                                 file_path |-> transfers[id].file_path,
                                 gone |-> FALSE]
                /\ ftOut' = FtRet("receive_chunk: lookup", id, chunk, FtOk(<<>>))

\* OpenOptions::new().write(true).open(&file_path): no file is created
ReceiveChunkOpen ==
    /\ receiving.pc = "open"
    /\ IF receiving.file_path \notin DOMAIN fs
       THEN /\ receiving' = NotReceiving
            /\ ftOut' = FtRet("receive_chunk", receiving.chunk.transfer_id,
                              receiving.chunk, FtErr("No such file or directory"))
       ELSE /\ receiving' = [receiving EXCEPT !.pc = "write"]
            /\ ftOut' = FtRet("receive_chunk: open", receiving.chunk.transfer_id,
                              receiving.chunk, FtOk(<<>>))
    /\ UNCHANGED <<transfers, fs, remoteFile, chunkLog, sigVars, dbVars, cryVars,
                   discVars, appVars>>

\* seek and write_all on the open file.  A registered path names one file
\* from prepare_receive to remove_file, and no transfer is registered while
\* the call is between its steps: a path that is gone means that the open
\* file was unlinked, and the write goes to a file without a name.
ReceiveChunkWrite ==
    LET chunk == receiving.chunk
        path == receiving.file_path
        data == Base64Decode(chunk.data).bytes
    IN  /\ receiving.pc = "write"
        /\ fs' = IF path \in DOMAIN fs
                 THEN [fs EXCEPT ![path] = WriteAt(@, chunk.chunk_index * CHUNK_SIZE, data)]
                 ELSE fs
        /\ receiving' = [receiving EXCEPT
                            !.pc = "update",
                            !.gone = /\ chunk.transfer_id \notin DOMAIN transfers
                                     /\ path \notin DOMAIN fs]
        /\ ftOut' = FtRet("receive_chunk: write", chunk.transfer_id, chunk, FtOk(<<>>))
        /\ UNCHANGED <<transfers, remoteFile, chunkLog, sigVars, dbVars, cryVars,
                       discVars, appVars>>

\* under the write lock the bitmap, if the transfer is still there; then
\* Ok(ChunkAck { success: true })
ReceiveChunkUpdate ==
    LET chunk == receiving.chunk
        id == chunk.transfer_id
        index == chunk.chunk_index
    IN  /\ receiving.pc = "update"
        /\ transfers' = IF id \in DOMAIN transfers
                        THEN [transfers EXCEPT ![id].received_chunks =
                                  SetReceived(@, index)]
                        ELSE transfers
        /\ chunkLog' = IF chunk = FileChunkOf(remoteFile, RemoteId, index)
                       THEN [delivered |-> chunkLog.delivered \cup {index},
                             acked |-> chunkLog.acked \cup {index}]
                       ELSE [chunkLog EXCEPT !.acked = @ \cup {index}]
        /\ receiving' = NotReceiving
        /\ ftOut' = FtRet("receive_chunk", id, chunk, FtOk(ChunkAck(chunk, TRUE)))
        /\ UNCHANGED <<fs, remoteFile, sigVars, dbVars, cryVars, discVars, appVars>>

\* FileTransferManager::get_missing_chunks
GetMissingChunks(transfer_id) ==
    /\ ftOut' = FtRet("get_missing_chunks", transfer_id, <<>>,
                      FtOk(MissingChunks(transfers, transfer_id)))
    /\ UNCHANGED <<transfers, fs, remoteFile, receiving, chunkLog, sigVars, dbVars, cryVars, discVars, appVars>>

\* what complete_transfer returns, with success always true
CompleteTransferResultAlways(T, F, transfer_id) ==
    IF transfer_id \notin DOMAIN T THEN FtErr("Transfer not found")
    ELSE FtOk([transfer_id |-> transfer_id, success |-> TRUE,
               checksum |-> T[transfer_id].checksum])

\* what complete_transfer returns
CompleteTransferResult(T, F, transfer_id) ==
    IF transfer_id \notin DOMAIN T THEN FtErr("Transfer not found")
    ELSE LET checksum == CalculateFileChecksum(F, T[transfer_id].file_path)
         IN  IF ~checksum.ok THEN FtErr(checksum.err)
             ELSE FtOk([transfer_id |-> transfer_id,
                        success |-> checksum.value = T[transfer_id].checksum,
                        checksum |-> checksum.value])

\* complete_transfer that gives up a transfer whose checksum differs
CompleteTransferDropsMismatch(transfer_id) ==
    LET r == CompleteTransferResult(transfers, fs, transfer_id)
    IN  /\ ftOut' = FtRet("complete_transfer", transfer_id, <<>>, r)
        /\ transfers' = IF r.ok
                        THEN IF r.value.success
                             THEN [transfers EXCEPT ![transfer_id].is_complete = TRUE]
                             ELSE Del(transfers, transfer_id)
                        ELSE transfers
        /\ UNCHANGED <<fs, remoteFile, receiving, chunkLog, sigVars, dbVars, cryVars, discVars, appVars>>

\* FileTransferManager::complete_transfer
CompleteTransfer(transfer_id) ==
    LET r == CompleteTransferResult(transfers, fs, transfer_id)
    IN  /\ ftOut' = FtRet("complete_transfer", transfer_id, <<>>, r)
        /\ transfers' = IF r.ok
                        THEN [transfers EXCEPT ![transfer_id].is_complete = r.value.success]
                        ELSE transfers
        /\ UNCHANGED <<fs, remoteFile, receiving, chunkLog, sigVars, dbVars, cryVars, discVars, appVars>>

\* cancel_transfer that removes the file whatever the role and the flag
CancelTransferAnyRole(transfer_id) ==
    /\ transfers' = Del(transfers, transfer_id)
    /\ fs' = IF transfer_id \in DOMAIN transfers
             THEN Del(fs, transfers[transfer_id].file_path)
             ELSE fs
    /\ ftOut' = FtRet("cancel_transfer", transfer_id, <<>>, FtOk(<<>>))
    /\ UNCHANGED <<remoteFile, receiving, chunkLog, sigVars, dbVars, cryVars, discVars, appVars>>

\* FileTransferManager::cancel_transfer
CancelTransfer(transfer_id) ==
    /\ transfers' = Del(transfers, transfer_id)
    /\ fs' = IF /\ transfer_id \in DOMAIN transfers
                /\ ~transfers[transfer_id].is_sender
                /\ ~transfers[transfer_id].is_complete
             THEN Del(fs, transfers[transfer_id].file_path)
             ELSE fs
    /\ ftOut' = FtRet("cancel_transfer", transfer_id, <<>>, FtOk(<<>>))
    /\ UNCHANGED <<remoteFile, receiving, chunkLog, sigVars, dbVars, cryVars, discVars, appVars>>

\* ------------------------------------------- orchestrator: commands

HostName == "host"

\* The id generate_id() returns: a fresh UUID.
FreshId == "m1"

\* init_app: a new device key, then the local user row is created, or
\* rewritten with the new key.  The file server failing to start ends the
\* command after the key was replaced.
InitApp(secret, file_server_ok) ==
    LET kp == DeviceKeyPair(secret)
        fresh == [id |-> LocalId, username |-> HostName,
                  public_key |-> PublicKeyB64(kp), avatar_path |-> NoAvatar,
                  bio |-> "", designation |-> "", last_seen |-> Epoch,
                  is_online |-> TRUE, created_at |-> Epoch]
        row == IF LocalId \in Ids(users)
               THEN [Row(users, LocalId) EXCEPT !.public_key = PublicKeyB64(kp),
                                                !.is_online = TRUE,
                                                !.last_seen = Epoch]
               ELSE fresh
    IN  /\ keypair' = Put(keypair, LocalId, kp)
        /\ cryOut' = CryRet("generate_keypair", LocalId, NoneStr, TRUE,
                            PublicKeyB64(kp), NoneStr)
        /\ users' = IF file_server_ok THEN CreateUser(users, row) ELSE users
        /\ sigOut' = Out("init_app", NoMsg, NoAddr, file_server_ok, <<>>, <<>>)
        /\ UNCHANGED <<sigSocket, sigPeers, eventChannel, messages, groups,
                       groupMembers, groupMessages, sessions, wire, dbConn, ftVars,
                       discVars, appVars>>

\* send_message command: store an outgoing message under a fresh id
SendMessageCmd(receiver_id, content) ==
    LET message == [id |-> FreshId, sender_id |-> LocalId,
                    receiver_id |-> receiver_id, content |-> content,
                    message_type |-> "text", file_path |-> NoneStr,
                    is_read |-> FALSE, is_delivered |-> FALSE, created_at |-> "t1"]
        stored == CreateMessage(messages, users, message)
    IN  /\ FreshId \notin Ids(messages)
        /\ messages' = stored.rows
        /\ sigOut' = Out("send_message", NoMsg, NoAddr, stored.ok, <<>>, <<>>)
        /\ UNCHANGED <<sigSocket, sigPeers, eventChannel, users, groups,
                       groupMembers, groupMessages, dbConn, ftVars, discVars, cryVars, appVars>>

\* mark_message_read command
MarkMessageReadCmd(message_id) ==
    /\ messages' = MarkMessageRead(messages, message_id)
    /\ sigOut' = Out("mark_message_read", NoMsg, NoAddr, TRUE, <<>>, <<>>)
    /\ UNCHANGED <<sigSocket, sigPeers, eventChannel, users, groups,
                   groupMembers, groupMessages, dbConn, ftVars, discVars, cryVars, appVars>>

\* mark_messages_read_from_peer command
MarkMessagesReadFromPeerCmd(peer_id) ==
    /\ messages' = MarkMessagesReadFromPeer(messages, LocalId, peer_id)
    /\ sigOut' = Out("mark_messages_read_from_peer", NoMsg, NoAddr, TRUE, <<>>, <<>>)
    /\ UNCHANGED <<sigSocket, sigPeers, eventChannel, users, groups,
                   groupMembers, groupMessages, dbConn, ftVars, discVars, cryVars, appVars>>

\* mark_message_delivered command
MarkMessageDeliveredCmd(message_id) ==
    /\ messages' = MarkMessageDelivered(messages, message_id)
    /\ sigOut' = Out("mark_message_delivered", NoMsg, NoAddr, TRUE, <<>>, <<>>)
    /\ UNCHANGED <<sigSocket, sigPeers, eventChannel, users, groups,
                   groupMembers, groupMessages, dbConn, ftVars, discVars, cryVars, appVars>>

\* delete_message command
DeleteMessageCmd(message_id) ==
    /\ messages' = DeleteMessage(messages, message_id)
    /\ sigOut' = Out("delete_message", NoMsg, NoAddr, TRUE, <<>>, <<>>)
    /\ UNCHANGED <<sigSocket, sigPeers, eventChannel, users, groups,
                   groupMembers, groupMessages, dbConn, ftVars, discVars, cryVars, appVars>>

\* delete_user command: never the local user; the messages exchanged with
\* the user go first, then the row.
DeleteUserCmd(user_id) ==
    LET M1 == DeleteAllMessagesWithPeer(messages, LocalId, user_id)
        deleted == DeleteUser(users, M1, user_id)
    IN  /\ IF user_id = LocalId
           THEN /\ UNCHANGED <<users, messages>>
                /\ sigOut' = Out("delete_user", NoMsg, NoAddr, FALSE, <<>>, <<>>)
           ELSE /\ messages' = M1
                /\ users' = deleted.rows
                /\ sigOut' = Out("delete_user", NoMsg, NoAddr, deleted.ok,
                                 IF deleted.ok THEN <<"user-deleted">> ELSE <<>>, <<>>)
        /\ UNCHANGED <<sigSocket, sigPeers, eventChannel, groups, groupMembers,
                       groupMessages, dbConn, ftVars, discVars, cryVars, appVars>>

\* ------------------------------------------------- Store: the methods

\* What a Store method leaves behind: Out's fields and the rows of a query.
StoreRet(op, arg, ok, rows) ==
    [op |-> op, msg |-> arg, src |-> NoAddr, ok |-> ok, emits |-> <<>>,
     sent |-> <<>>, rows |-> rows]

\* a lock() that does not wait for the holder
AcquireAnyway(conn) == TRUE

\* self.conn.lock(): the method goes on once nobody holds the mutex
Acquire(conn) == conn = ConnFree

\* Database::create_user
DbCreateUser(row) ==
    /\ Acquire(dbConn)
    /\ users' = CreateUser(users, row)
    /\ sigOut' = StoreRet("create_user", row, TRUE, <<>>)
    /\ UNCHANGED <<sigSocket, sigPeers, eventChannel, messages, groups, groupMembers,
                   groupMessages, dbConn, ftVars, discVars, cryVars, appVars>>

\* Database::upsert_peer_as_user
DbUpsertPeerAsUser(id, username, public_key) ==
    /\ Acquire(dbConn)
    /\ users' = UpsertPeerAsUser(users, id, username, public_key)
    /\ sigOut' = StoreRet("upsert_peer_as_user", [id |-> id], TRUE, <<>>)
    /\ UNCHANGED <<sigSocket, sigPeers, eventChannel, messages, groups, groupMembers,
                   groupMessages, dbConn, ftVars, discVars, cryVars, appVars>>

\* Database::upsert_peer_as_user with Utc::now() read as now_str
DbUpsertPeerAsUserAt(id, username, public_key, now_str) ==
    /\ Acquire(dbConn)
    /\ users' = UpsertPeerAsUserAt(users, id, username, public_key, now_str)
    /\ sigOut' = StoreRet("upsert_peer_as_user",
                          [id |-> id, username |-> username,
                           public_key |-> public_key, now_str |-> now_str],
                          TRUE, <<>>)
    /\ UNCHANGED <<sigSocket, sigPeers, eventChannel, messages, groups, groupMembers,
                   groupMessages, dbConn, ftVars, discVars, cryVars, appVars>>

\* Database::set_user_avatar
DbSetUserAvatar(id, avatar_url) ==
    /\ Acquire(dbConn)
    /\ users' = SetUserAvatar(users, id, avatar_url)
    /\ sigOut' = StoreRet("set_user_avatar", [id |-> id], TRUE, <<>>)
    /\ UNCHANGED <<sigSocket, sigPeers, eventChannel, messages, groups, groupMembers,
                   groupMessages, dbConn, ftVars, discVars, cryVars, appVars>>

\* Database::create_message
DbCreateMessage(message) ==
    LET stored == CreateMessage(messages, users, message)
    IN  /\ Acquire(dbConn)
        /\ messages' = stored.rows
        /\ sigOut' = StoreRet("create_message", message, stored.ok, <<>>)
        /\ UNCHANGED <<sigSocket, sigPeers, eventChannel, users, groups, groupMembers,
                       groupMessages, dbConn, ftVars, discVars, cryVars, appVars>>

\* Database::delete_message
DbDeleteMessage(id) ==
    /\ Acquire(dbConn)
    /\ messages' = DeleteMessage(messages, id)
    /\ sigOut' = StoreRet("delete_message", [id |-> id], TRUE, <<>>)
    /\ UNCHANGED <<sigSocket, sigPeers, eventChannel, users, groups, groupMembers,
                   groupMessages, dbConn, ftVars, discVars, cryVars, appVars>>

\* Database::delete_all_messages_with_peer
DbDeleteAllMessagesWithPeer(local_id, peer_id) ==
    /\ Acquire(dbConn)
    /\ messages' = DeleteAllMessagesWithPeer(messages, local_id, peer_id)
    /\ sigOut' = StoreRet("delete_all_messages_with_peer", [id |-> peer_id], TRUE, <<>>)
    /\ UNCHANGED <<sigSocket, sigPeers, eventChannel, users, groups, groupMembers,
                   groupMessages, dbConn, ftVars, discVars, cryVars, appVars>>

\* Database::mark_message_read
DbMarkMessageRead(id) ==
    /\ Acquire(dbConn)
    /\ messages' = MarkMessageRead(messages, id)
    /\ sigOut' = StoreRet("mark_message_read", [id |-> id], TRUE, <<>>)
    /\ UNCHANGED <<sigSocket, sigPeers, eventChannel, users, groups, groupMembers,
                   groupMessages, dbConn, ftVars, discVars, cryVars, appVars>>

\* Database::mark_messages_read_from_peer
DbMarkMessagesReadFromPeer(local_id, peer_id) ==
    /\ Acquire(dbConn)
    /\ messages' = MarkMessagesReadFromPeer(messages, local_id, peer_id)
    /\ sigOut' = StoreRet("mark_messages_read_from_peer", [id |-> peer_id], TRUE, <<>>)
    /\ UNCHANGED <<sigSocket, sigPeers, eventChannel, users, groups, groupMembers,
                   groupMessages, dbConn, ftVars, discVars, cryVars, appVars>>

\* Database::mark_message_delivered
DbMarkMessageDelivered(id) ==
    /\ Acquire(dbConn)
    /\ messages' = MarkMessageDelivered(messages, id)
    /\ sigOut' = StoreRet("mark_message_delivered", [id |-> id], TRUE, <<>>)
    /\ UNCHANGED <<sigSocket, sigPeers, eventChannel, users, groups, groupMembers,
                   groupMessages, dbConn, ftVars, discVars, cryVars, appVars>>

\* Database::update_message_file_path
DbUpdateMessageFilePath(message_id, file_path) ==
    /\ Acquire(dbConn)
    /\ messages' = UpdateMessageFilePath(messages, message_id, file_path)
    /\ sigOut' = StoreRet("update_message_file_path", [id |-> message_id], TRUE, <<>>)
    /\ UNCHANGED <<sigSocket, sigPeers, eventChannel, users, groups, groupMembers,
                   groupMessages, dbConn, ftVars, discVars, cryVars, appVars>>

\* Database::delete_user
DbDeleteUser(id) ==
    LET deleted == DeleteUser(users, messages, id)
    IN  /\ Acquire(dbConn)
        /\ users' = deleted.rows
        /\ sigOut' = StoreRet("delete_user", [id |-> id], deleted.ok, <<>>)
        /\ UNCHANGED <<sigSocket, sigPeers, eventChannel, messages, groups, groupMembers,
                       groupMessages, dbConn, ftVars, discVars, cryVars, appVars>>

\* The order of the created_at texts, which are RFC 3339 times in UTC.
TimeRank(created_at) ==
    CASE created_at = "t0" -> 0 [] created_at = "t1" -> 1 [] OTHER -> 2

\* ORDER BY created_at ASC
BeforeAsc(a, b) == TimeRank(a.created_at) < TimeRank(b.created_at)

\* ORDER BY created_at DESC: a is numbered before b
Before(a, b) == TimeRank(a.created_at) > TimeRank(b.created_at)

\* CASE WHEN sender_id = ?1 THEN receiver_id ELSE sender_id END
PeerIdOfRow(r, local_id) == IF r.sender_id = local_id THEN r.receiver_id ELSE r.sender_id

\* The numberings ROW_NUMBER() OVER (PARTITION BY peer_id ORDER BY created_at
\* DESC) may give to the rows WHERE sender_id = ?1 OR receiver_id = ?1: rows of
\* equal created_at are numbered in either order.
RowNumbers(M, local_id) ==
    LET S == {r \in M : r.sender_id = local_id \/ r.receiver_id = local_id}
        Part(r) == {q \in S : PeerIdOfRow(q, local_id) = PeerIdOfRow(r, local_id)}
    IN  {rn \in [S -> 1..Cardinality(S)] :
            \A r \in S :
                /\ rn[r] <= Cardinality(Part(r))
                /\ \A q \in Part(r) \ {r} :
                      /\ rn[q] # rn[r]
                      /\ Before(r, q) => rn[r] < rn[q]}

\* the rows of a set in the order a query returns them
RECURSIVE RowsOf(_)
RowsOf(S) ==
    IF S = {} THEN <<>>
    ELSE LET r == CHOOSE r \in S : TRUE IN <<r>> \o RowsOf(S \ {r})

\* Database::get_last_messages under one numbering: the rows WHERE rn = 1
GetLastMessages(M, local_id, rn) ==
    LET Info(r) == [peer_id |-> PeerIdOfRow(r, local_id), content |-> r.content,
                    created_at |-> r.created_at,
                    is_from_me |-> (r.sender_id = local_id)]
        first == RowsOf({r \in DOMAIN rn : rn[r] = 1})
    IN  [i \in 1..Len(first) |-> Info(first[i])]

\* Database::get_last_messages
DbGetLastMessages(local_id) ==
    /\ Acquire(dbConn)
    /\ \E rn \in RowNumbers(messages, local_id) :
          sigOut' = StoreRet("get_last_messages", [id |-> local_id], TRUE,
                             GetLastMessages(messages, local_id, rn))
    /\ UNCHANGED <<sigSocket, sigPeers, eventChannel, dbVars, ftVars, discVars, cryVars, appVars>>

\* Database::create_group
DbCreateGroup(g) ==
    LET created == CreateGroup(groups, g)
    IN  /\ Acquire(dbConn)
        /\ groups' = created.rows
        /\ sigOut' = StoreRet("create_group", g, created.ok, <<>>)
        /\ UNCHANGED <<sigSocket, sigPeers, eventChannel, users, messages, groupMembers,
                       groupMessages, dbConn, ftVars, discVars, cryVars, appVars>>

\* Database::add_group_member
DbAddGroupMember(member) ==
    LET added == AddGroupMember(groupMembers, groups, member)
    IN  /\ Acquire(dbConn)
        /\ groupMembers' = added.rows
        /\ sigOut' = StoreRet("add_group_member", member, added.ok, <<>>)
        /\ UNCHANGED <<sigSocket, sigPeers, eventChannel, users, messages, groups,
                       groupMessages, dbConn, ftVars, discVars, cryVars, appVars>>

\* Database::remove_group_member
DbRemoveGroupMember(group_id, user_id) ==
    /\ Acquire(dbConn)
    /\ groupMembers' = RemoveGroupMember(groupMembers, group_id, user_id)
    /\ sigOut' = StoreRet("remove_group_member", [group_id |-> group_id], TRUE, <<>>)
    /\ UNCHANGED <<sigSocket, sigPeers, eventChannel, users, messages, groups,
                   groupMessages, dbConn, ftVars, discVars, cryVars, appVars>>

\* Database::send_group_message
DbSendGroupMessage(msg) ==
    LET stored == SendGroupMessage(groupMessages, groups, msg)
    IN  /\ Acquire(dbConn)
        /\ groupMessages' = stored.rows
        /\ sigOut' = StoreRet("send_group_message", msg, stored.ok, <<>>)
        /\ UNCHANGED <<sigSocket, sigPeers, eventChannel, users, messages, groups,
                       groupMembers, dbConn, ftVars, discVars, cryVars, appVars>>

\* Database::delete_group, one statement at a step: the mutex taken before
\* the first DELETE is held until the third is done.  The DELETE on groups
\* cascades to the rows that reference the group.
DbDeleteGroup(group_id) ==
    LET Without(T) == {r \in T : r.group_id # group_id}
        mine == dbConn.holder = "delete_group" /\ dbConn.group_id = group_id
    IN  /\ Acquire(dbConn) \/ mine
        /\ IF ~mine
           THEN /\ groupMessages' = Without(groupMessages)
                /\ dbConn' = [holder |-> "delete_group", group_id |-> group_id, done |-> 1]
                /\ UNCHANGED <<groupMembers, groups>>
           ELSE IF dbConn.done = 1
           THEN /\ groupMembers' = Without(groupMembers)
                /\ dbConn' = [dbConn EXCEPT !.done = 2]
                /\ UNCHANGED <<groupMessages, groups>>
           ELSE /\ groups' = {g \in groups : g.id # group_id}
                /\ groupMembers' = Without(groupMembers)
                /\ groupMessages' = Without(groupMessages)
                /\ dbConn' = ConnFree
        /\ sigOut' = StoreRet("delete_group", [group_id |-> group_id], dbConn'= ConnFree,
                              <<>>)
        /\ UNCHANGED <<sigSocket, sigPeers, eventChannel, users, messages, ftVars,
                       discVars, cryVars, appVars>>

\* ------------------------------------------------------------ discovery

PEER_TIMEOUT_SECS == 15

ANNOUNCE_INTERVAL_SECS == 3

\* The address a node's datagrams are seen to come from.
IpOf(n) == IF n = LocalId THEN "10.0.0.9" ELSE "10.0.0.5"

UserName(n) == IF n = LocalId THEN HostName ELSE XName

\* The key text the remote device advertises.
XKeyText == PublicKeyB64(DeviceKeyPair(3))

\* local_peer_info: the address is a placeholder the receiver fills in
LocalPeerInfo(device_id, username, port, public_key) ==
    [device_id |-> device_id, username |-> username, ip_address |-> "0.0.0.0",
     port |-> port, public_key |-> public_key, is_online |-> TRUE]

\* impl From<&Peer> for PeerInfo
PeerInfoOf(peer) ==
    [device_id |-> peer.device_id, username |-> peer.username,
     ip_address |-> peer.ip_address, port |-> peer.port,
     public_key |-> peer.public_key, is_online |-> peer.is_online]

\* DiscoveryManager::new, with no thread yet.  sleep is what is left of the
\* announcer's thread::sleep, age of a peer is now - last_seen, in seconds.
NoManager ==
    [running |-> FALSE, listener |-> FALSE, announcer |-> FALSE, sleep |-> 0,
     consumer |-> FALSE, info |-> <<>>, peers |-> EmptyMap]

\* The local manager before its first start, when its runs are told apart:
\* run counts the starts that spawned threads; listeners, announcers and
\* consumers hold the runs whose thread of that kind is alive; info[g] is the
\* local_peer_info the threads of run g captured and byes[g] the Bye packets
\* run g has broadcast; stopped holds the runs that a stop() found with
\* threads (history); pause is the username and port of a restart_discovery
\* in its sleep; called says that start_discovery has returned Ok (history).
NoThreads ==
    [run |-> 0, listeners |-> {}, announcers |-> {}, consumers |-> {},
     info |-> <<>>, byes |-> <<>>, stopped |-> {}, pause |-> <<>>,
     called |-> FALSE]

DiscRet(op, node, ok, value, events) ==
    [op |-> op, node |-> node, ok |-> ok, value |-> value, events |-> events]

\* A node's socket is open while one of its threads holds it.
SocketOpen(D, n) == D[n].listener \/ D[n].announcer

\* send_to the broadcast addresses: every open socket of the domain gets the
\* datagram, the sender's own included
Broadcast(D, n, msg_type) ==
    {[to |-> m, src |-> IpOf(n), msg_type |-> msg_type, peer |-> D[n].info] :
        m \in {m \in Nodes : SocketOpen(D, m)}}

\* the datagrams left once the sockets that closed are gone
Buffered(D, net) == {d \in net : SocketOpen(D, d.to)}

\* the address stored for a peer, taken from the packet
AdvertisedIp(packet, src_ip) == packet.peer.ip_address

\* let ip = src_addr.ip().to_string()
ObservedIp(packet, src_ip) == src_ip

\* the listener without the look at the table: every Hello is a discovery
HandlePacketNoLookup(local_device_id, peers, packet, src_ip) ==
    LET id == packet.peer.device_id
        peer == [device_id |-> id, username |-> packet.peer.username,
                 ip_address |-> src_ip, port |-> packet.peer.port,
                 public_key |-> packet.peer.public_key, is_online |-> TRUE,
                 age |-> 0]
    IN  IF id = local_device_id THEN [peers |-> peers, events |-> <<>>]
        ELSE IF packet.msg_type = "Hello"
        THEN [peers |-> Put(peers, id, peer),
              events |-> <<[type |-> "PeerDiscovered", peer |-> PeerInfoOf(peer)]>>]
        ELSE IF id \in DOMAIN peers
        THEN [peers |-> [peers EXCEPT ![id].is_online = FALSE],
              events |-> <<[type |-> "PeerLost", device_id |-> id]>>]
        ELSE [peers |-> peers, events |-> <<>>]

\* the listener without the comparison with the local device id
HandlePacketOwnKept(local_device_id, peers, packet, src_ip) ==
    LET id == packet.peer.device_id
        peer == [device_id |-> id, username |-> packet.peer.username,
                 ip_address |-> src_ip, port |-> packet.peer.port,
                 public_key |-> packet.peer.public_key, is_online |-> TRUE,
                 age |-> 0]
    IN  IF packet.msg_type = "Hello"
        THEN [peers |-> Put(peers, id, peer),
              events |-> <<[type |-> IF id \in DOMAIN peers THEN "PeerUpdated"
                                     ELSE "PeerDiscovered",
                            peer |-> PeerInfoOf(peer)]>>]
        ELSE IF id \in DOMAIN peers
        THEN [peers |-> [peers EXCEPT ![id].is_online = FALSE],
              events |-> <<[type |-> "PeerLost", device_id |-> id]>>]
        ELSE [peers |-> peers, events |-> <<>>]

\* The listener's handling of one parsed packet: the peer table and the
\* events sent.
HandlePacket(local_device_id, peers, packet, src_ip) ==
    LET id == packet.peer.device_id
    IN  IF id = local_device_id THEN [peers |-> peers, events |-> <<>>]
        ELSE IF packet.msg_type = "Hello"
        THEN LET peer == [device_id |-> id,
                          username |-> packet.peer.username,
                          ip_address |-> ObservedIp(packet, src_ip),
                          port |-> packet.peer.port,
                          public_key |-> packet.peer.public_key,
                          is_online |-> TRUE,
                          age |-> 0]
             IN  [peers |-> Put(peers, id, peer),
                  events |-> <<[type |-> IF id \in DOMAIN peers THEN "PeerUpdated"
                                         ELSE "PeerDiscovered",
                                peer |-> PeerInfoOf(peer)]>>]
        ELSE IF id \in DOMAIN peers
        THEN [peers |-> [peers EXCEPT ![id].is_online = FALSE],
              events |-> <<[type |-> "PeerLost", device_id |-> id]>>]
        ELSE [peers |-> peers, events |-> <<>>]

\* room in the event channel for what a step of node n sends
Room(n, events) == n = LocalId => Len(discEvents) + Len(events) <= MaxQueue

Sent(n, events) == IF n = LocalId THEN discEvents \o events ELSE discEvents

\* the listener thread: one datagram off the socket
DiscoveryListen(d) ==
    LET n == d.to
        r == HandlePacket(n, disc[n].peers, d, d.src)
    IN  /\ d \in discNet
        /\ disc[n].listener
        /\ Room(n, r.events)
        /\ disc' = [disc EXCEPT ![n].peers = r.peers]
        /\ discNet' = discNet \ {d}
        /\ discEvents' = Sent(n, r.events)
        /\ discOut' = DiscRet("listen", n, TRUE, d, r.events)
        /\ UNCHANGED <<bothUp, threads, sigVars, dbVars, ftVars, cryVars, appVars>>

\* a thread of a stopped manager: it ends at its next look at the flag
ThreadExit(n, thread) ==
    /\ ~disc[n].running
    /\ disc[n][thread]
    /\ thread \in {"listener", "consumer"}
    /\ disc' = [disc EXCEPT ![n][thread] = FALSE]
    /\ discNet' = Buffered(disc', discNet)
    /\ discOut' = DiscRet("exit", n, TRUE, thread, <<>>)
    /\ UNCHANGED <<discEvents, bothUp, threads, sigVars, dbVars, ftVars, cryVars, appVars>>

\* the comparison of the sweep, one second early
IsStaleEarly(peer) == peer.is_online /\ peer.age >= PEER_TIMEOUT_SECS

\* peer.is_online && now.duration_since(peer.last_seen) > timeout
IsStale(peer) == peer.is_online /\ peer.age > PEER_TIMEOUT_SECS

\* the PeerLost events of a sweep, in the order of the table's iteration
RECURSIVE LostEvents(_)
LostEvents(ids) ==
    IF ids = {} THEN <<>>
    ELSE LET id == CHOOSE id \in ids : TRUE
         IN  <<[type |-> "PeerLost", device_id |-> id]>> \o LostEvents(ids \ {id})

\* the announcer thread when its sleep is over: while running, a Hello, the
\* sweep of stale peers and the next sleep; once stopped, the Bye and the end
Announce(n) ==
    LET stale == {id \in DOMAIN disc[n].peers : IsStale(disc[n].peers[id])}
        swept == [id \in DOMAIN disc[n].peers |->
                     IF id \in stale THEN [disc[n].peers[id] EXCEPT !.is_online = FALSE]
                     ELSE disc[n].peers[id]]
    IN  /\ disc[n].announcer
        /\ disc[n].sleep = 0
        /\ IF disc[n].running
           THEN /\ Room(n, LostEvents(stale))
                /\ disc' = [disc EXCEPT ![n].peers = swept,
                                        ![n].sleep = ANNOUNCE_INTERVAL_SECS]
                /\ discNet' = discNet \cup Broadcast(disc, n, "Hello")
                /\ discEvents' = Sent(n, LostEvents(stale))
                /\ discOut' = DiscRet("announce", n, TRUE, stale, LostEvents(stale))
           ELSE /\ disc' = [disc EXCEPT ![n].announcer = FALSE]
                /\ discNet' = Buffered(disc', discNet \cup Broadcast(disc, n, "Bye"))
                /\ discEvents' = discEvents
                /\ discOut' = DiscRet("bye", n, TRUE, {}, <<>>)
        /\ UNCHANGED <<bothUp, threads, sigVars, dbVars, ftVars, cryVars, appVars>>

\* every thread of an earlier run has ended
Quiet(n) == ~disc[n].listener /\ ~disc[n].announcer /\ ~disc[n].consumer

\* start_discovery command on device n: the device's public key, then
\* DiscoveryManager::start, which sets running before it makes the socket, and
\* on Ok(true) the thread that consumes the events.  The remote device's
\* consumer is outside the model.  A start finds the threads of an earlier
\* run ended.
StartDiscovery(n, username, port, socket_ok) ==
    /\ disc[n].running \/ Quiet(n)
    /\ IF n \notin DOMAIN keypair
       THEN /\ disc' = disc
            /\ discOut' = DiscRet("start_discovery", n, FALSE,
                                  "Public key not initialized", <<>>)
       ELSE IF disc[n].running
       THEN /\ disc' = disc
            /\ discOut' = DiscRet("start_discovery", n, TRUE, FALSE, <<>>)
       ELSE IF ~socket_ok
       THEN /\ disc' = [disc EXCEPT ![n].running = TRUE]
            /\ discOut' = DiscRet("start_discovery", n, FALSE, "socket", <<>>)
       ELSE /\ disc' = [disc EXCEPT ![n] =
                          [@ EXCEPT !.running = TRUE, !.listener = TRUE,
                                    !.announcer = TRUE, !.sleep = 0,
                                    !.consumer = (n = LocalId),
                                    !.info = LocalPeerInfo(n, username, port,
                                                 PublicKeyB64(keypair[n]))]]
            /\ discOut' = DiscRet("start_discovery", n, TRUE, TRUE, <<>>)
    /\ UNCHANGED <<discNet, discEvents, bothUp, threads, sigVars, dbVars, ftVars, cryVars, appVars>>

\* stop_discovery command: DiscoveryManager::stop
StopDiscovery(n) ==
    /\ disc' = [disc EXCEPT ![n].running = FALSE]
    /\ bothUp' = 0
    /\ discOut' = DiscRet("stop_discovery", n, TRUE, <<>>, <<>>)
    /\ UNCHANGED <<discNet, discEvents, threads, sigVars, dbVars, ftVars, cryVars, appVars>>

\* DiscoveryManager::get_peers
GetPeers(n) == {PeerInfoOf(disc[n].peers[id]) : id \in DOMAIN disc[n].peers}

\* the consumer that registers a peer only while it has no binding
ConsumeDiscoveryEventKeepBinding ==
    /\ disc[LocalId].consumer
    /\ discEvents # <<>>
    /\ LET event == Head(discEvents)
       IN  IF event.type = "PeerLost"
           THEN /\ UNCHANGED <<users, sigPeers>>
                /\ sigOut' = Out("peer-lost", NoMsg, NoAddr, TRUE, <<"peer-lost">>, <<>>)
           ELSE LET peer == event.peer
                    addr == ParseSocketAddr(peer.ip_address, peer.port)
                IN  /\ users' = UpsertPeerAsUser(users, peer.device_id, peer.username,
                                                 peer.public_key)
                    /\ sigPeers' = IF peer.device_id \in DOMAIN sigPeers THEN sigPeers
                                   ELSE Put(sigPeers, peer.device_id, addr)
                    /\ sigOut' = Out("register_peer", NoMsg, addr, addr # NoAddr,
                                     <<IF event.type = "PeerDiscovered"
                                       THEN "peer-discovered" ELSE "peer-updated">>,
                                     <<>>)
    /\ discEvents' = Tail(discEvents)
    /\ discOut' = DiscRet("consume", LocalId, TRUE, Head(discEvents), <<>>)
    /\ UNCHANGED <<disc, discNet, bothUp, threads, sigSocket, eventChannel, messages, groups,
                   groupMembers, groupMessages, dbConn, ftVars, cryVars, appVars>>

\* one event off the channel, as the loop of the consumer thread handles it
ConsumeEvent ==
    /\ discEvents # <<>>
    /\ LET event == Head(discEvents)
       IN  IF event.type = "PeerLost"
           THEN /\ UNCHANGED <<users, sigPeers>>
                /\ sigOut' = Out("peer-lost", NoMsg, NoAddr, TRUE, <<"peer-lost">>, <<>>)
           ELSE LET peer == event.peer
                    addr == ParseSocketAddr(peer.ip_address, peer.port)
                IN  /\ users' = UpsertPeerAsUser(users, peer.device_id, peer.username,
                                                 peer.public_key)
                    /\ sigPeers' = IF addr = NoAddr THEN sigPeers
                                   ELSE Put(sigPeers, peer.device_id, addr)
                    /\ sigOut' = Out("register_peer", NoMsg, addr, addr # NoAddr,
                                     <<IF event.type = "PeerDiscovered"
                                       THEN "peer-discovered" ELSE "peer-updated">>,
                                     <<>>)
    /\ discEvents' = Tail(discEvents)
    /\ discOut' = DiscRet("consume", LocalId, TRUE, Head(discEvents), <<>>)
    /\ UNCHANGED <<disc, discNet, bothUp, threads, sigSocket, eventChannel, messages, groups,
                   groupMembers, groupMessages, dbConn, ftVars, cryVars, appVars>>

\* the consumer thread of start_discovery on one event
ConsumeDiscoveryEvent == disc[LocalId].consumer /\ ConsumeEvent

\* both managers run with their threads
BothUp == \A n \in Nodes : disc[n].running /\ disc[n].listener /\ disc[n].announcer

\* A thread that has something to do does it before a second has passed: an
\* announcer whose sleep is over, a listener with a datagram in its socket, the
\* consumer with an event in the channel, and a listener or consumer of a
\* stopped manager, which looks at the flag every 500 ms.
Busy ==
    \/ \E n \in Nodes : disc[n].announcer /\ disc[n].sleep = 0
    \/ \E d \in discNet : disc[d.to].listener
    \/ disc[LocalId].consumer /\ discEvents # <<>>
    \/ \E n \in Nodes : ~disc[n].running /\ (disc[n].listener \/ disc[n].consumer)

\* one second passes
Tick ==
    /\ ~Busy
    /\ disc' = [n \in Nodes |->
                  [disc[n] EXCEPT
                     !.sleep = IF disc[n].announcer THEN @ - 1 ELSE @,
                     !.peers = [id \in DOMAIN @ |->
                                  [@[id] EXCEPT !.age =
                                      IF @ > PEER_TIMEOUT_SECS THEN @ ELSE @ + 1]]]]
    /\ bothUp' = IF ~BothUp THEN 0
                 ELSE IF bothUp < 2 * ANNOUNCE_INTERVAL_SECS THEN bothUp + 1
                 ELSE bothUp
    /\ discOut' = DiscRet("tick", NoneStr, TRUE, <<>>, <<>>)
    /\ UNCHANGED <<discNet, discEvents, threads, sigVars, dbVars, ftVars, cryVars, appVars>>

\* a datagram is lost on the way
Lose(d) ==
    /\ d \in discNet
    /\ discNet' = discNet \ {d}
    /\ discOut' = DiscRet("lose", d.to, TRUE, d, <<>>)
    /\ UNCHANGED <<disc, discEvents, bothUp, threads, sigVars, dbVars, ftVars, cryVars, appVars>>

\* ------------------------------------------- orchestrator: relay commands

\* What a relay command leaves behind: Out's fields, the peer or group asked
\* for, the error text and the number of send_message calls made.
RelayRet(op, peer, msg, ok, err, sent, attempts) ==
    [op |-> op, msg |-> msg, src |-> NoAddr, ok |-> ok, emits |-> <<>>,
     sent |-> sent, peer |-> peer, err |-> err, attempts |-> attempts]

\* send_signaling_message command
SendSignalingMessageCmd(peer_id, message) ==
    LET r == SendMessage(peer_id, message)
    IN  /\ sigOut' = RelayRet("send_signaling_message", peer_id, message, r.ok,
                              r.err, r.sent, 1)
        /\ UNCHANGED <<sigSocket, sigPeers, eventChannel, dbVars, ftVars, discVars,
                       cryVars, appVars>>

\* The error texts of the signaling server, word by word.
ErrWords(err) ==
    CASE err = "Peer not found" -> <<"Peer", "not", "found">>
      [] err = "Socket not initialized" -> <<"Socket", "not", "initialized">>
      [] OTHER -> <<>>

\* str::contains on the words of a text
Contains(words, pat) ==
    \E i \in 1..(Len(words) - Len(pat) + 1) : SubSeq(words, i, i + Len(pat) - 1) = pat

\* every error starts the fallback
IsNotFoundAlways(err) == TRUE

\* e.contains("not found") || e.contains("Not found")
IsNotFound(err) ==
    \/ Contains(ErrWords(err), <<"not", "found">>)
    \/ Contains(ErrWords(err), <<"Not", "found">>)

\* the ChatMessage that relay_chat_message builds
OutgoingChat(peer_id, message_id, content) ==
    [ChatMessageMsg(LocalId, message_id, content) EXCEPT
        !.to = peer_id, !.sender_name = HostName, !.timestamp = "t1"]

\* relay_chat_message command: one send; on a not-found error the peer is
\* looked up in the discovery table, registered, and the send made again
RelayChatMessageCmd(peer_id, message_id, content) ==
    LET msg == OutgoingChat(peer_id, message_id, content)
        first == SendMessage(peer_id, msg)
        found == {p \in GetPeers(LocalId) : p.device_id = peer_id}
        p == CHOOSE p \in found : TRUE
        addr == ParseSocketAddr(p.ip_address, p.port)
        Ret(ok, err, sent, attempts) ==
            RelayRet("relay_chat_message", peer_id, msg, ok, err, sent, attempts)
    IN  /\ UNCHANGED <<sigSocket, eventChannel, dbVars, ftVars, discVars, cryVars, appVars>>
        /\ IF first.ok
           THEN /\ sigPeers' = sigPeers
                /\ sigOut' = Ret(TRUE, NoneStr, first.sent, 1)
           ELSE IF ~IsNotFound(first.err)
           THEN /\ sigPeers' = sigPeers
                /\ sigOut' = Ret(FALSE, first.err, <<>>, 1)
           ELSE IF found = {}
           THEN /\ sigPeers' = sigPeers
                /\ sigOut' = Ret(FALSE, "Peer not found in signaling or discovery",
                                 <<>>, 1)
           ELSE IF addr = NoAddr
           THEN /\ sigPeers' = sigPeers
                /\ sigOut' = Ret(FALSE, "invalid socket address syntax", <<>>, 1)
           ELSE /\ sigPeers' = Put(sigPeers, peer_id, addr)
                /\ LET second == SendMessage(peer_id, msg)'
                   IN  sigOut' = Ret(second.ok, second.err, second.sent, 2)

PeerY == "Y"

PeerZ == "Z"

\* The ids generate_id() returns for a group message.
FreshGroupMsgId == "gm2"

\* every member row of the group, the local device's included
AllMembers(GM, group_id) == {r.user_id : r \in {r \in GM : r.group_id = group_id}}

\* get_group_members, then `if m.user_id != state.device_id`
OtherMembers(GM, group_id) == AllMembers(GM, group_id) \ {LocalId}

\* the GroupChatMessage that send_group_message builds for one member
OutgoingGroupChat(to, row) ==
    [type |-> "GroupChatMessage", from |-> LocalId, to |-> to,
     group_id |-> row.group_id, id |-> row.id, content |-> row.content,
     message_type |-> row.message_type, sender_name |-> row.sender_name,
     timestamp |-> row.created_at]

\* send_group_message command: get_user(..).unwrap() panics without the local
\* user row; the message is stored, or the command ends with the storage
\* error; then one send to every other member, and for a not-found error the
\* discovery lookup, register_peer and a second send, all results dropped.
SendGroupMessageCmd(group_id, content) ==
    LET row == [id |-> FreshGroupMsgId, group_id |-> group_id, sender_id |-> LocalId,
                sender_name |-> Row(users, LocalId).username, content |-> content,
                message_type |-> "text", created_at |-> "t1"]
        stored == SendGroupMessage(groupMessages, groups, row)
        members == OtherMembers(groupMembers, group_id)
        First(m) == SendMessage(m, OutgoingGroupChat(m, row))
        Found(m) == {p \in GetPeers(LocalId) : p.device_id = m}
        Retry(m) == ~First(m).ok /\ IsNotFound(First(m).err) /\ Found(m) # {}
        AddrOf(m) == LET p == CHOOSE p \in Found(m) : TRUE
                     IN  ParseSocketAddr(p.ip_address, p.port)
        registered == {m \in members : Retry(m) /\ AddrOf(m) # NoAddr}
        Ret(ok, err, sent, attempts) ==
            RelayRet("send_group_message", group_id, row, ok, err, sent, attempts)
    IN  /\ FreshGroupMsgId \notin Ids(groupMessages)
        /\ UNCHANGED <<sigSocket, eventChannel, users, messages, groups, groupMembers,
                       dbConn, ftVars, discVars, cryVars, appVars>>
        /\ IF LocalId \notin Ids(users)
           THEN /\ UNCHANGED <<groupMessages, sigPeers>>
                /\ sigOut' = RelayRet("send_group_message", group_id, NoMsg, FALSE,
                                      "panic", EmptyMap, EmptyMap)
           ELSE IF ~stored.ok
           THEN /\ UNCHANGED <<groupMessages, sigPeers>>
                /\ sigOut' = Ret(FALSE, "storage", EmptyMap, EmptyMap)
           ELSE /\ groupMessages' = stored.rows
                /\ sigPeers' = [id \in DOMAIN sigPeers \cup registered |->
                                  IF id \in registered THEN AddrOf(id) ELSE sigPeers[id]]
                /\ sigOut' = Ret(TRUE, NoneStr,
                                 [m \in members |->
                                    IF First(m).ok THEN First(m).sent
                                    ELSE IF Retry(m)
                                    THEN SendMessage(m, OutgoingGroupChat(m, row))'.sent
                                    ELSE <<>>],
                                 [m \in members |-> IF Retry(m) THEN 2 ELSE 1])

\* ------------------------------------------------------------ file server

\* no request answered in the latest step
SrvIdle == [op |-> "idle"]

\* FileServer.storage_dir: <data_local_dir>/Pingo/shared_files
StorageDir == "Pingo/shared_files"

\* download_and_cache_avatar's directory: <data_local_dir>/Pingo/avatars
AvatarsDir == "Pingo/avatars"

\* A directory entry fs::read cannot read: a directory, or a file without
\* the permission.  No file holds a negative byte.
Unreadable == <<-1>>

\* path.exists() and fs::read(path) is Ok
Readable(F, path) == path \in DOMAIN F /\ F[path] # Unreadable

\* char::to_lowercase over the letters of the model's names
Lower(c) ==
    CASE c = "P" -> "p" [] c = "N" -> "n" [] c = "G" -> "g" [] OTHER -> c

\* filename.rsplit('.').next(): the text after the last '.', the whole name
\* when there is none
AfterLastDot(name) ==
    LET dots == {i \in 1..Len(name) : name[i] = "."}
    IN  IF dots = {} THEN name
        ELSE LET last == CHOOSE i \in dots : \A j \in dots : j <= i
             IN  SubSeq(name, last + 1, Len(name))

\* guess_mime
GuessMime(filename) ==
    LET e == AfterLastDot(filename)
        ext == [i \in 1..Len(e) |-> Lower(e[i])]
    IN  CASE ext = <<"p", "n", "g">> -> "image/png"
          [] ext = <<"j", "p", "g">> \/ ext = <<"j", "p", "e", "g">> -> "image/jpeg"
          [] ext = <<"g", "i", "f">> -> "image/gif"
          [] ext = <<"s", "v", "g">> -> "image/svg+xml"
          [] ext = <<"w", "e", "b", "p">> -> "image/webp"
          [] ext = <<"m", "p", "4">> -> "video/mp4"
          [] ext = <<"w", "e", "b", "m">> -> "video/webm"
          [] ext = <<"p", "d", "f">> -> "application/pdf"
          [] ext = <<"z", "i", "p">> -> "application/zip"
          [] OTHER -> "application/octet-stream"

\* mime_to_ext
MimeToExt(mime) ==
    CASE mime = "image/png" -> <<"p", "n", "g">>
      [] mime = "image/jpeg" \/ mime = "image/jpg" -> <<"j", "p", "g">>
      [] mime = "image/gif" -> <<"g", "i", "f">>
      [] mime = "image/svg+xml" -> <<"s", "v", "g">>
      [] mime = "image/webp" -> <<"w", "e", "b", "p">>
      [] mime = "video/mp4" -> <<"m", "p", "4">>
      [] mime = "video/webm" -> <<"w", "e", "b", "m">>
      [] mime = "application/pdf" -> <<"p", "d", "f">>
      [] mime = "application/zip" -> <<"z", "i", "p">>
      [] OTHER -> <<"b", "i", "n">>

\* str::starts_with
StartsWith(text, prefix) ==
    Len(prefix) <= Len(text) /\ SubSeq(text, 1, Len(prefix)) = prefix

\* str::strip_prefix: the rest of the text, or None
StripPrefix(text, prefix) ==
    IF StartsWith(text, prefix) THEN SubSeq(text, Len(prefix) + 1, Len(text))
    ELSE NoneStr

\* str::trim_matches('/')
RECURSIVE TrimSlashes(_)
TrimSlashes(text) ==
    IF text = <<>> THEN text
    ELSE IF Head(text) = "/" THEN TrimSlashes(Tail(text))
    ELSE IF text[Len(text)] = "/" THEN TrimSlashes(SubSeq(text, 1, Len(text) - 1))
    ELSE text

\* the prefix of the URLs that name a file
FileUrlPrefix == <<"/", "f", "i", "l", "e", "/">>

\* every entry of any directory whose name starts with the id
FindFileAnywhere(F, storage_dir, file_id) ==
    {[data |-> F[path], mime |-> GuessMime(path.name), path |-> path] :
        path \in {q \in DOMAIN F : StartsWith(q.name, file_id) /\ Readable(F, q)}}

\* find_file_on_disk: read_dir lists the entries of the storage directory in
\* an order of its own, and the first whose name starts with the id and which
\* can be read is returned; the set holds what the call may return, and is
\* empty for None
FindFileOnDisk(F, storage_dir, file_id) ==
    {[data |-> F[path], mime |-> GuessMime(path.name), path |-> path] :
        path \in {q \in DOMAIN F : /\ q.dir = storage_dir
                                    /\ StartsWith(q.name, file_id)
                                    /\ Readable(F, q)}}

\* the response to one request
SrvResponse(method, url, status, content_type, body, path) ==
    [op |-> "request", method |-> method, url |-> url, status |-> status,
     content_type |-> content_type, body |-> body, path |-> path]

\* the frame of the file server's steps
SrvFrame ==
    UNCHANGED <<settings, boot, issued, devLog, transfers, remoteFile, receiving, ftOut, chunkLog,
                sigVars, dbVars, cryVars, discVars>>

\* FileServer::store_data_url with the data URL already split: the mime of
\* its header and the bytes its base64 part decodes to
StoreDataUrl(file_id, mime_type, bytes) ==
    LET file_path == [dir |-> StorageDir, name |-> file_id \o <<".">> \o MimeToExt(mime_type)]
    IN  /\ fs' = Put(fs, file_path, bytes)
        /\ fileIndex' = Put(fileIndex, file_id, [path |-> file_path, mime_type |-> mime_type])
        /\ srvOut' = SrvIdle
        /\ SrvFrame

\* FileServer::register_file
RegisterFile(file_id, path, file_name) ==
    /\ fileIndex' = Put(fileIndex, file_id,
                        [path |-> path, mime_type |-> GuessMime(file_name)])
    /\ srvOut' = SrvIdle
    /\ fs' = fs
    /\ SrvFrame

\* download_and_cache_avatar: the downloaded bytes are written under the
\* avatars directory and the file is registered under the avatar's id
DownloadAndCacheAvatar(file_id, filename, bytes) ==
    LET file_path == [dir |-> AvatarsDir, name |-> filename]
    IN  /\ fs' = Put(fs, file_path, bytes)
        /\ fileIndex' = Put(fileIndex, file_id,
                            [path |-> file_path, mime_type |-> GuessMime(filename)])
        /\ srvOut' = SrvIdle
        /\ SrvFrame

\* a file is deleted, or replaced by something that cannot be read, behind
\* the server's back
DiskChange(path, gone) ==
    /\ path \in DOMAIN fs
    /\ fs' = IF gone THEN Del(fs, path) ELSE [fs EXCEPT ![path] = Unreadable]
    /\ srvOut' = SrvIdle
    /\ fileIndex' = fileIndex
    /\ SrvFrame

\* FileServer::new of the next run: the registry is empty, the files stay
FileServerNew ==
    /\ fileIndex' = EmptyMap
    /\ srvOut' = SrvIdle
    /\ fs' = fs
    /\ SrvFrame

\* the request loop of FileServer::start, one request
Request(method, url) ==
    LET stripped == StripPrefix(url, FileUrlPrefix)
        file_id == TrimSlashes(stripped)
        registered == /\ file_id \in DOMAIN fileIndex
                      /\ Readable(fs, fileIndex[file_id].path)
        disk_data == FindFileOnDisk(fs, StorageDir, file_id)
    IN  /\ IF method = "OPTIONS"
           THEN srvOut' = SrvResponse(method, url, 200, NoneStr, <<>>, NoneStr)
           ELSE IF stripped = NoneStr
           THEN srvOut' = SrvResponse(method, url, 200, NoneStr, "Pingo File Server",
                                      NoneStr)
           ELSE IF registered
           THEN srvOut' = SrvResponse(method, url, 200, fileIndex[file_id].mime_type,
                                      fs[fileIndex[file_id].path],
                                      fileIndex[file_id].path)
           ELSE IF disk_data # {}
           THEN \E found \in disk_data :
                    srvOut' = SrvResponse(method, url, 200, found.mime, found.data,
                                          found.path)
           ELSE srvOut' = SrvResponse(method, url, 404, NoneStr, "Not found", NoneStr)
        /\ UNCHANGED <<fs, fileIndex>>
        /\ SrvFrame

\* ----------------------------------------- AppState::new and the settings

\* The processes that open one Store: nothing keeps the application from
\* being launched again while it runs.
Procs == {"p1", "p2"}

\* The texts generate_device_id() may return: 16 random bytes in hex.
DeviceIds == {"d1", "d2", "d3"}

\* Database::get_setting: the value of the row, or None
GetSetting(S, key) == IF key \in DOMAIN S THEN S[key] ELSE NoneStr

\* Database::set_setting: INSERT OR REPLACE INTO settings
SetSetting(S, key, value) == Put(S, key, value)

\* a process before AppState::new and after its exit
BootOff == [pc |-> "off", device_id |-> NoneStr]

\* AppState::new up to its match on get_setting("device_id"): a stored text
\* that is not empty is the device id, anything else sends it to generate one
AppStateNewRead(p) ==
    LET got == GetSetting(settings, "device_id")
        kept == got # NoneStr /\ got # ""
    IN  /\ boot[p].pc = "off"
        /\ boot' = [boot EXCEPT ![p] = IF kept THEN [pc |-> "up", device_id |-> got]
                                       ELSE [pc |-> "generate", device_id |-> NoneStr]]
        /\ issued' = IF kept THEN issued \cup {got} ELSE issued
        /\ UNCHANGED <<settings, fileIndex, srvOut, devLog, sigVars, dbVars, ftVars, cryVars,
                       discVars>>

\* AppState::new from generate_device_id() on: the new id is stored under
\* device_id and returned.  An id is sixteen random bytes and not one met before.
AppStateNewStore(p) ==
    /\ boot[p].pc = "generate"
    /\ \E new_id \in DeviceIds \ (issued \cup {GetSetting(settings, "device_id")}) :
          /\ settings' = SetSetting(settings, "device_id", new_id)
          /\ boot' = [boot EXCEPT ![p] = [pc |-> "up", device_id |-> new_id]]
          /\ issued' = issued \cup {new_id}
    /\ UNCHANGED <<fileIndex, srvOut, devLog, sigVars, dbVars, ftVars, cryVars, discVars>>

\* the process ends; the Store stays on disk
AppExit(p) ==
    /\ boot[p].pc = "up"
    /\ boot' = [boot EXCEPT ![p] = BootOff]
    /\ UNCHANGED <<settings, issued, fileIndex, srvOut, devLog, sigVars, dbVars, ftVars,
                   cryVars, discVars>>

\* the set_setting command of a running process
SetSettingCmd(p, key, value) ==
    /\ boot[p].pc = "up"
    /\ settings' = SetSetting(settings, key, value)
    /\ UNCHANGED <<boot, issued, fileIndex, srvOut, devLog, sigVars, dbVars, ftVars, cryVars,
                   discVars>>

\* ------------------------------------------------------ initial state

\* SignalingServer::new
SigInit ==
    /\ sigSocket = FALSE
    /\ sigPeers = EmptyMap
    /\ eventChannel = <<>>
    /\ sigOut = Out("new", NoMsg, NoAddr, TRUE, <<>>, <<>>)

\* Database::new on a fresh file: the schema, no rows
DbInit ==
    /\ users = {}
    /\ messages = {}
    /\ groups = {}
    /\ groupMembers = {}
    /\ groupMessages = {}
    /\ dbConn = ConnFree

\* FileTransferManager::new
FtInit ==
    /\ transfers = EmptyMap
    /\ fs = EmptyMap
    /\ remoteFile = <<>>
    /\ ftOut = FtRet("new", NoneStr, <<>>, FtOk(<<>>))
    /\ chunkLog = NoChunks
    /\ receiving = NotReceiving

\* CryptoManager::new
CryInit ==
    /\ keypair = EmptyMap
    /\ sessions = EmptyMap
    /\ wire = NoMsg
    /\ cryOut = CryRet("new", NoneStr, NoneStr, TRUE, <<>>, NoneStr)

\* DiscoveryManager::new on every device
DiscInit ==
    /\ disc = [n \in Nodes |-> NoManager]
    /\ discNet = {}
    /\ discEvents = <<>>
    /\ discOut = DiscRet("new", NoneStr, TRUE, <<>>, <<>>)
    /\ bothUp = 0
    /\ threads = NoThreads

\* ----------------------------------------------------- commands.rs dev_log

\* The threads that call dev_log: the thread that runs the commands
\* (init_app, append_dev_log) and the event forwarder that start_signaling
\* spawns.
LogThreads == {"commands", "forwarder"}

\* The seconds of the system clock that are followed, and the calls.
MaxClock == 2
MaxCalls == 3

LogIdle == [pc |-> "idle", ts |-> 0, prev |-> 0]

\* The process at its start: LAST_DEV_LOG_WRITE is created with 0 by the
\* first call; stdout and file hold the timestamps of their lines.
NoLog ==
    [clock |-> 1, last |-> 0, stdout |-> <<>>, file |-> <<>>,
     call |-> [t \in LogThreads |-> LogIdle]]

\* a.saturating_sub(b) on u64
SaturatingSub(a, b) == IF a >= b THEN a - b ELSE 0

LogFrame == UNCHANGED <<settings, boot, issued, fileIndex, srvOut, sigVars, dbVars,
                        ftVars, cryVars, discVars>>

\* dev_log on thread t, up to println!: the timestamp and the line on stdout
DevLogPrint(t) ==
    /\ devLog.call[t].pc = "idle"
    /\ Len(devLog.stdout) < MaxCalls
    /\ devLog' = [devLog EXCEPT !.stdout = Append(@, devLog.clock),
                                !.call[t] = [pc |-> "load", ts |-> devLog.clock,
                                             prev |-> 0]]
    /\ LogFrame

\* last_write.load(Ordering::Relaxed)
DevLogLoad(t) ==
    /\ devLog.call[t].pc = "load"
    /\ devLog' = [devLog EXCEPT !.call[t].pc = "test",
                                !.call[t].prev = devLog.last]
    /\ LogFrame

\* the comparison with the value that was loaded, and when it admits the
\* write: last_write.store(ts), the line appended to the file
DevLogWrite(t) ==
    /\ devLog.call[t].pc = "test"
    /\ LET c == devLog.call[t]
       IN  devLog' = IF SaturatingSub(c.ts, c.prev) >= 1
                     THEN [devLog EXCEPT !.last = c.ts,
                                         !.file = Append(@, c.ts),
                                         !.call[t] = LogIdle]
                     ELSE [devLog EXCEPT !.call[t] = LogIdle]
    /\ LogFrame

\* the system clock reaches the next second
ClockTick ==
    /\ devLog.clock < MaxClock
    /\ devLog' = [devLog EXCEPT !.clock = @ + 1]
    /\ LogFrame

\* Database::init_tables on a new file, no process started, FileServer::new
AppInit ==
    /\ settings = EmptyMap
    /\ boot = [p \in Procs |-> BootOff]
    /\ issued = {}
    /\ fileIndex = EmptyMap
    /\ srvOut = SrvIdle
    /\ devLog = NoLog

Init == SigInit /\ DbInit /\ FtInit /\ CryInit /\ DiscInit /\ AppInit

\* --------------------------- signaling over the whole message catalog

Consume ==
    \/ HandleChatMessage
    \/ HandleProfileUpdate
    \/ HandleGroupCreated
    \/ HandleGroupChatMessage
    \/ HandleMeetingChatMessage
    \/ HandleGroupMemberAdded
    \/ HandleGroupMemberRemoved
    \/ HandleOther

Next ==
    \/ StartSignaling
    \/ \E msg \in Catalog(PeerX), src \in Addrs : ListenerRecv(msg, src)
    \/ ListenerRecvMalformed
    \/ \E ip \in Ips \cup {BadIp} : RegisterPeer(PeerX, ip, SigPort)
    \/ Consume

Spec == Init /\ [][Next]_vars

\* ------------------------------------------------------ chat relay

\* The ChatMessage datagrams a peer, honest or not, may send.
ChatDatagrams ==
    {ChatMessageMsg(from, FreshId, content) :
        from \in {PeerX, LocalId}, content \in {"hi", "yo"}}

NextChat ==
    \/ \E ok \in BOOLEAN : InitApp(2, ok)
    \/ StartSignaling
    \/ \E msg \in ChatDatagrams, src \in Addrs : ListenerRecv(msg, src)
    \/ \E ip \in Ips \cup {BadIp} : RegisterPeer(PeerX, ip, SigPort)
    \/ RegisterPeer(LocalId, "10.0.0.9", SigPort)
    \/ HandleChatMessage
    \/ SendMessageCmd(PeerX, "hi")
    \/ MarkMessageReadCmd(FreshId)
    \/ MarkMessagesReadFromPeerCmd(PeerX)
    \/ MarkMessageDeliveredCmd(FreshId)
    \/ DeleteMessageCmd(FreshId)
    \/ \E user_id \in {PeerX, LocalId} : DeleteUserCmd(user_id)

SpecChat == Init /\ [][NextChat]_vars

\* ------------------------------------- two devices exchanging envelopes

\* The envelope leaves the network.
Forget ==
    /\ wire # NoMsg
    /\ wire' = NoMsg
    /\ cryOut' = CryRet("forget", NoneStr, NoneStr, TRUE, <<>>, NoneStr)
    /\ UNCHANGED <<keypair, sessions, sigVars, dbVars, ftVars, discVars, appVars>>

\* Keys change between exchanges.  What becomes of an envelope depends on the
\* sender's state when it was sealed and on the receiver's when it is opened,
\* so a key change while an envelope is in flight behaves as one made before
\* the envelope was sealed.
NextCrypto ==
    \/ wire = NoMsg /\ \E n \in Nodes, secret \in Secrets : GenerateKeypair(n, secret)
    \/ wire = NoMsg /\ \E n \in Nodes, text \in PeerKeyTexts :
          EstablishSession(n, Other(n), text)
    \/ \E n \in Nodes, plaintext \in Plaintexts, nonce \in Nonces :
          Encrypt(n, Other(n), plaintext, nonce)
    \/ \E kind \in TamperKinds : Tamper(kind)
    \/ \E n \in Nodes : Decrypt(n, Other(n))
    \/ Forget

SpecCrypto == Init /\ [][NextCrypto]_vars

\* ------------------------------------- one manager's keys and sessions

\* the texts load_keypair is given as the secret: a secret key, and a text
\* that is not base64
SecretTexts == {Base64Encode(SecretBytes(k)) : k \in Secrets} \cup {<<NotB64>>}

NextSessions ==
    \/ \E secret \in Secrets : GenerateKeypair(LocalId, secret)
    \/ \E secret_b64 \in SecretTexts, public_b64 \in PeerKeyTexts :
          LoadKeypair(LocalId, secret_b64, public_b64)
    \/ \E text \in PeerKeyTexts : EstablishSession(LocalId, PeerX, text)
    \/ RemoveSession(LocalId, PeerX)
    \/ ClearSessions(LocalId)
    \/ Encrypt(LocalId, PeerX, <<255>>, <<1>> \o Zeros(NONCE_SIZE - 1))
    \/ Decrypt(LocalId, PeerX)
    \/ Forget

SpecSessions == Init /\ [][NextSessions]_vars

\* ------------------------------- envelopes with a rewritten sender key

NextEnvelope ==
    \/ wire = NoMsg /\ \E n \in Nodes, secret \in Secrets : GenerateKeypair(n, secret)
    \/ wire = NoMsg /\ \E n \in Nodes, text \in PeerKeyTexts :
          EstablishSession(n, Other(n), text)
    \/ \E n \in Nodes, nonce \in Nonces : Encrypt(n, Other(n), <<255>>, nonce)
    \/ \E kind \in {"flip", "nonce not base64"} : Tamper(kind)
    \/ \E text \in SenderKeyTexts : RewriteSenderKey(text)
    \/ \E n \in Nodes : Decrypt(n, Other(n))
    \/ Forget

SpecEnvelope == Init /\ [][NextEnvelope]_vars

\* ------------------------------ relays to peers known or not yet known

\* a presence datagram of a remote device reaches the local socket
Arrive(d) ==
    /\ SocketOpen(disc, LocalId)
    /\ discNet = {}
    /\ d.to = LocalId
    /\ discNet' = discNet \cup {d}
    /\ discOut' = DiscRet("arrive", LocalId, TRUE, d, <<>>)
    /\ UNCHANGED <<disc, discEvents, bothUp, threads, sigVars, dbVars, ftVars, cryVars, appVars>>

\* the Hello and Bye datagrams of the remote devices
RemoteDatagrams ==
    {[to |-> LocalId, src |-> IF id = PeerX THEN "10.0.0.5" ELSE "10.0.0.9",
      msg_type |-> t, peer |-> LocalPeerInfo(id, XName, SigPort, XKeyText)] :
        t \in {"Hello", "Bye"}, id \in {PeerX, PeerY}}

RelayPeers == {PeerX, PeerY}

NextRelay ==
    \/ InitApp(2, TRUE)
    \/ StartSignaling
    \/ ~disc[LocalId].running /\ StartDiscovery(LocalId, HostName, SigPort, TRUE)
    \/ \E d \in RemoteDatagrams : Arrive(d)
    \/ \E d \in discNet : DiscoveryListen(d)
    \/ ConsumeDiscoveryEvent
    \/ ListenerRecv(GroupCreatedMsg(PeerY, "g1", <<PeerY, PeerX, LocalId, PeerZ>>),
                    Addr("10.0.0.9", SigPort))
    \/ HandleGroupCreated
    \/ \E peer_id \in RelayPeers :
          SendSignalingMessageCmd(peer_id, PlainMsg("Ping", LocalId))
    \/ \E peer_id \in RelayPeers : RelayChatMessageCmd(peer_id, FreshId, "hi")
    \/ \E group_id \in {"g1", "g2"} : SendGroupMessageCmd(group_id, "hi")

SpecRelay == Init /\ [][NextRelay]_vars

\* ------------------------------------------- the Store under its callers

StoreIds == {LocalId, PeerX, PeerY}

MessageIds == {"m1", "m2", "m3"}

\* the rows a caller may hand to create_message: the second and the third
\* carry the same time
StoreMessages ==
    {[id |-> id, sender_id |-> pair[1], receiver_id |-> pair[2], content |-> id,
      message_type |-> "text", file_path |-> NoneStr, is_read |-> FALSE,
      is_delivered |-> FALSE, created_at |-> IF id = "m1" THEN "t0" ELSE "t1"] :
        id \in MessageIds,
        pair \in {<<LocalId, PeerX>>, <<PeerX, LocalId>>, <<PeerY, LocalId>>,
                  <<PeerX, PeerY>>}}

NextStore ==
    \/ DbCreateUser([id |-> LocalId, username |-> HostName, public_key |-> NoKey,
                     avatar_path |-> NoAvatar, bio |-> "", designation |-> "",
                     last_seen |-> Epoch, is_online |-> TRUE, created_at |-> Epoch])
    \/ \E id \in StoreIds \ {LocalId} : DbUpsertPeerAsUser(id, XName, NoKey)
    \/ \E message \in StoreMessages : DbCreateMessage(message)
    \/ \E id \in MessageIds : DbDeleteMessage(id)
    \/ \E peer_id \in StoreIds : DbDeleteAllMessagesWithPeer(LocalId, peer_id)
    \/ \E id \in StoreIds : DbDeleteUser(id)
    \/ DbGetLastMessages(LocalId)

SpecStore == Init /\ [][NextStore]_vars

\* ------------------------------------- the messages table under its writers

\* the ids of the rows written to the messages table
WrittenIds == {"m1", "m2"}

\* the rows handed to create_message: one id comes with either text, from
\* either side, already delivered or not
WrittenMessages ==
    {[id |-> id, sender_id |-> pair[1], receiver_id |-> pair[2], content |-> content,
      message_type |-> "text", file_path |-> NoneStr, is_read |-> FALSE,
      is_delivered |-> is_delivered, created_at |-> IF id = "m1" THEN "t0" ELSE "t1"] :
        id \in WrittenIds, pair \in {<<LocalId, PeerX>>, <<PeerX, LocalId>>},
        content \in {"hi", "yo"}, is_delivered \in BOOLEAN}

\* the organized paths update_message_file_path is given
OrganizedPaths == {"Pingo/images/a.png"}

NextMessages ==
    \/ DbCreateUser([id |-> LocalId, username |-> HostName, public_key |-> NoKey,
                     avatar_path |-> NoAvatar, bio |-> "", designation |-> "",
                     last_seen |-> Epoch, is_online |-> TRUE, created_at |-> Epoch])
    \/ DbUpsertPeerAsUser(PeerX, XName, NoKey)
    \/ \E message \in WrittenMessages : DbCreateMessage(message)
    \/ \E id \in WrittenIds : DbMarkMessageRead(id)
    \/ DbMarkMessagesReadFromPeer(LocalId, PeerX)
    \/ \E id \in WrittenIds : DbMarkMessageDelivered(id)
    \/ \E id \in WrittenIds, file_path \in OrganizedPaths :
          DbUpdateMessageFilePath(id, file_path)
    \/ \E id \in WrittenIds : DbDeleteMessage(id)
    \/ DbDeleteAllMessagesWithPeer(LocalId, PeerX)

SpecMessages == Init /\ [][NextMessages]_vars

\* ---------------------------------------- the users table under its writers

\* the profile rows the create_user command writes for the local device
ProfileRows ==
    {[id |-> LocalId, username |-> HostName, public_key |-> XKeyText,
      avatar_path |-> avatar, bio |-> "dev", designation |-> "eng",
      last_seen |-> Epoch, is_online |-> TRUE, created_at |-> Epoch] :
        avatar \in {NoAvatar, <<"me.png">>}}

\* the key texts a caller may pass: none, or one of two devices' keys
PeerKeys == {NoKey, XKeyText, PublicKeyB64(DeviceKeyPair(2))}

\* the readings of Utc::now() after Epoch
LaterTimes == {"t1", "t2"}

NextUsers ==
    \/ \E row \in ProfileRows : DbCreateUser(row)
    \/ \E id \in {LocalId, PeerX}, username \in {XName, HostName} :
          \E public_key \in PeerKeys, now_str \in LaterTimes :
              DbUpsertPeerAsUserAt(id, username, public_key, now_str)
    \/ \E id \in {LocalId, PeerX} : DbSetUserAvatar(id, <<"peer.png">>)
    \/ \E id \in {LocalId, PeerX} : DbDeleteUser(id)

SpecUsers == Init /\ [][NextUsers]_vars

\* ------------------------------------------- the device id over restarts

\* the keys and values the set_setting command is called with
SettingKeys == {"device_id", "theme"}

SettingValues == {"", "dark"}

NextDevice ==
    \/ \E p \in Procs : AppStateNewRead(p)
    \/ \E p \in Procs : AppStateNewStore(p)
    \/ \E p \in Procs : AppExit(p)
    \/ \E p \in Procs, key \in SettingKeys, value \in SettingValues :
          SetSettingCmd(p, key, value)

SpecDevice == Init /\ [][NextDevice]_vars

\* ------------------------------------------------ the file server's files

\* the ids files are stored and asked under; the first is a prefix of the second
MediaIds == {<<"f">>, <<"f", "1">>, <<"g">>}

\* the URLs of the requests
MediaUrls ==
    {FileUrlPrefix \o id : id \in MediaIds} \cup
    {FileUrlPrefix \o <<"f", "1", "/">>, FileUrlPrefix, <<"/">>,
     FileUrlPrefix \o <<".", ".", "/", "u">>}

\* format!("user_{}.png", device_id)
AvatarName == <<"u", ".", "p", "n", "g">>

\* the name a sender gave a downloaded file
SentName == <<"x", ".", "P", "N", "G">>

NextMedia ==
    \/ \E mime_type \in {"image/png", "text/plain"} :
          StoreDataUrl(<<"f", "1">>, mime_type, <<1>>)
    \/ \E path \in DOMAIN fs : \E file_name \in {path.name, SentName} :
          RegisterFile(<<"g">>, path, file_name)
    \/ DownloadAndCacheAvatar(<<"f">>, AvatarName, <<2>>)
    \/ \E path \in DOMAIN fs, gone \in BOOLEAN : DiskChange(path, gone)
    \/ FileServerNew
    \/ \E method \in {"GET", "OPTIONS"}, url \in MediaUrls : Request(method, url)

SpecMedia == Init /\ [][NextMedia]_vars

\* ------------------------------------------ the group tables of the Store

GroupIds == {"g1", "g2"}

NextGroups ==
    \/ \E group_id \in GroupIds :
          DbCreateGroup([id |-> group_id, name |-> "g", created_by |-> LocalId,
                         created_at |-> "t1"])
    \/ \E group_id \in GroupIds, user_id \in {LocalId, PeerX} :
          DbAddGroupMember([group_id |-> group_id, user_id |-> user_id,
                            username |-> user_id, role |-> "member"])
    \/ \E group_id \in GroupIds : DbRemoveGroupMember(group_id, PeerX)
    \/ \E group_id \in GroupIds, id \in {"gm1", "gm2"} :
          DbSendGroupMessage([id |-> id, group_id |-> group_id, sender_id |-> LocalId,
                              sender_name |-> HostName, content |-> "hi",
                              message_type |-> "text", created_at |-> "t1"])
    \/ \E group_id \in GroupIds : DbDeleteGroup(group_id)

SpecGroups == Init /\ [][NextGroups]_vars

\* ------------------------------------------ two devices on one domain

\* the secret of a device's key pair
SecretOf(n) == IF n = LocalId THEN 2 ELSE 3

\* Two DiscoveryManagers on one broadcast domain, every datagram delivered;
\* the remote one may be stopped and started again.
NextDiscovery ==
    \/ \E n \in Nodes : n \notin DOMAIN keypair /\ GenerateKeypair(n, SecretOf(n))
    \/ \E n \in Nodes, socket_ok \in BOOLEAN :
          StartDiscovery(n, UserName(n), SigPort, socket_ok)
    \/ disc[PeerX].running /\ StopDiscovery(PeerX)
    \/ \E n \in Nodes, thread \in {"listener", "consumer"} : ThreadExit(n, thread)
    \/ \E d \in discNet : DiscoveryListen(d)
    \/ \E n \in Nodes : Announce(n)
    \/ ConsumeDiscoveryEvent
    \/ Tick

SpecDiscovery == Init /\ [][NextDiscovery]_vars

\* A manager started once and its peer, started once and stopped at some
\* time, on a domain that may lose datagrams.
NextSweep ==
    \/ \E n \in Nodes : n \notin DOMAIN keypair /\ GenerateKeypair(n, SecretOf(n))
    \/ \E n \in Nodes :
          disc[n].info = <<>> /\ StartDiscovery(n, UserName(n), SigPort, TRUE)
    \/ disc[PeerX].running /\ StopDiscovery(PeerX)
    \/ \E n \in Nodes, thread \in {"listener", "consumer"} : ThreadExit(n, thread)
    \/ \E d \in discNet : DiscoveryListen(d)
    \/ \E d \in discNet : Lose(d)
    \/ \E n \in Nodes : Announce(n)
    \/ ConsumeDiscoveryEvent
    \/ Tick

SpecSweep == Init /\ [][NextSweep]_vars

\* a step of one of the threads, or of the clock
ThreadStep ==
    \/ \E d \in discNet : DiscoveryListen(d)
    \/ \E n \in Nodes, thread \in {"listener", "consumer"} : ThreadExit(n, thread)
    \/ \E n \in Nodes : Announce(n)
    \/ ConsumeDiscoveryEvent
    \/ Tick

\* The threads are scheduled and time passes: a thread that can take a step
\* is not kept from it for ever.  A lost datagram and a command are not owed.
SpecSweepFair == SpecSweep /\ WF_vars(ThreadStep)

\* -------------------------------- one manager and the packets it is sent

\* Hello and Bye packets that reach the local socket: a device that changes
\* its name and its address, and packets that carry the local device id
PresenceDatagrams ==
    {[to |-> LocalId, src |-> ip, msg_type |-> t,
      peer |-> LocalPeerInfo(id, name, SigPort, XKeyText)] :
        t \in {"Hello", "Bye"}, ip \in Ips, id \in {PeerX, LocalId},
        name \in {XName, HostName}}

NextPresence ==
    \/ InitApp(2, TRUE)
    \/ ~disc[LocalId].running /\ StartDiscovery(LocalId, HostName, SigPort, TRUE)
    \/ \E d \in PresenceDatagrams : Arrive(d)
    \/ \E d \in discNet : DiscoveryListen(d)
    \/ Announce(LocalId)
    \/ ConsumeDiscoveryEvent
    \/ Tick

SpecPresence == Init /\ [][NextPresence]_vars

\* ------------------------------------------- the threads that call dev_log

NextLog ==
    \/ \E t \in LogThreads : DevLogPrint(t)
    \/ \E t \in LogThreads : DevLogLoad(t)
    \/ \E t \in LogThreads : DevLogWrite(t)
    \/ ClockTick

SpecLog == Init /\ [][NextLog]_vars

\* ------------------------------------ one manager whose runs may overlap

\* The runs of the local manager that are followed.
MaxRuns == 2

\* Hello and Bye packets of the remote device
RunDatagrams ==
    {d \in PresenceDatagrams : d.peer.device_id = PeerX /\ d.peer.username = XName}

\* DiscoveryManager::start once the flag was found false: the flag is set, a
\* socket is bound (SO_REUSEADDR, so a socket of an earlier run does not
\* stand in the way) and a listener and an announcer are spawned, which
\* share the flag with every thread spawned before.  consumer: the caller
\* spawns the thread that drains the event channel.
ManagerStart(T, username, port, consumer) ==
    LET g == T.run + 1
    IN  [T EXCEPT !.run = g,
                  !.listeners = @ \cup {g},
                  !.announcers = @ \cup {g},
                  !.consumers = IF consumer THEN @ \cup {g} ELSE @,
                  !.info = Append(@, LocalPeerInfo(LocalId, username, port,
                                          PublicKeyB64(keypair[LocalId]))),
                  !.byes = Append(@, <<>>)]

\* DiscoveryManager::stop: the flag, and nothing else
ManagerStop(T) ==
    [T EXCEPT !.stopped = IF disc[LocalId].running
                          THEN @ \cup T.listeners \cup T.announcers ELSE @]

\* start_discovery command
StartDiscoveryCmd(username, port) ==
    /\ threads.pause = <<>>
    /\ threads.run < MaxRuns
    /\ IF LocalId \notin DOMAIN keypair
       THEN /\ UNCHANGED <<disc, threads>>
            /\ discOut' = DiscRet("start_discovery", LocalId, FALSE,
                                  "Public key not initialized", <<>>)
       ELSE IF disc[LocalId].running
       THEN /\ disc' = disc
            /\ threads' = [threads EXCEPT !.called = TRUE]
            /\ discOut' = DiscRet("start_discovery", LocalId, TRUE, "Ok(false)", <<>>)
       ELSE /\ disc' = [disc EXCEPT ![LocalId].running = TRUE]
            /\ threads' = [ManagerStart(threads, username, port, TRUE)
                              EXCEPT !.called = TRUE]
            /\ discOut' = DiscRet("start_discovery", LocalId, TRUE, "Ok(true)", <<>>)
    /\ UNCHANGED <<discNet, discEvents, bothUp, sigVars, dbVars, ftVars, cryVars, appVars>>

\* stop_discovery command
StopDiscoveryCmd ==
    /\ threads.pause = <<>>
    /\ disc' = [disc EXCEPT ![LocalId].running = FALSE]
    /\ threads' = ManagerStop(threads)
    /\ discOut' = DiscRet("stop_discovery", LocalId, TRUE, <<>>, <<>>)
    /\ UNCHANGED <<discNet, discEvents, bothUp, sigVars, dbVars, ftVars, cryVars, appVars>>

\* restart_discovery command up to its sleep of 200 ms
RestartDiscoveryStop(username, port) ==
    /\ threads.pause = <<>>
    /\ threads.run < MaxRuns
    /\ disc' = [disc EXCEPT ![LocalId].running = FALSE]
    /\ threads' = [ManagerStop(threads) EXCEPT !.pause = <<username, port>>]
    /\ discOut' = DiscRet("restart_discovery", LocalId, TRUE, "sleep", <<>>)
    /\ UNCHANGED <<discNet, discEvents, bothUp, sigVars, dbVars, ftVars, cryVars, appVars>>

\* restart_discovery command after its sleep: the public key and start,
\* without a consumer thread
RestartDiscoveryStart ==
    /\ threads.pause # <<>>
    /\ IF LocalId \notin DOMAIN keypair
       THEN /\ disc' = disc
            /\ threads' = [threads EXCEPT !.pause = <<>>]
            /\ discOut' = DiscRet("restart_discovery", LocalId, FALSE,
                                  "Public key not initialized", <<>>)
       ELSE IF disc[LocalId].running
       THEN /\ disc' = disc
            /\ threads' = [threads EXCEPT !.pause = <<>>]
            /\ discOut' = DiscRet("restart_discovery", LocalId, TRUE, "Ok(false)", <<>>)
       ELSE /\ disc' = [disc EXCEPT ![LocalId].running = TRUE]
            /\ threads' = [ManagerStart(threads, threads.pause[1], threads.pause[2],
                                        FALSE) EXCEPT !.pause = <<>>]
            /\ discOut' = DiscRet("restart_discovery", LocalId, TRUE, "Ok(true)", <<>>)
    /\ UNCHANGED <<discNet, discEvents, bothUp, sigVars, dbVars, ftVars, cryVars, appVars>>

\* the listener of run g finds the flag set and takes a packet off its socket
RunListen(g, d) ==
    LET r == HandlePacket(LocalId, disc[LocalId].peers, d, d.src)
    IN  /\ g \in threads.listeners
        /\ disc[LocalId].running
        /\ Room(LocalId, r.events)
        /\ disc' = [disc EXCEPT ![LocalId].peers = r.peers]
        /\ discEvents' = Sent(LocalId, r.events)
        /\ discOut' = DiscRet("listen", g, TRUE, d, r.events)
        /\ UNCHANGED <<discNet, bothUp, threads, sigVars, dbVars, ftVars, cryVars, appVars>>

\* the announcer of run g finds the flag set: a Hello and the sweep
RunAnnounce(g) ==
    LET peers == disc[LocalId].peers
        stale == {id \in DOMAIN peers : IsStale(peers[id])}
        swept == [id \in DOMAIN peers |->
                     IF id \in stale THEN [peers[id] EXCEPT !.is_online = FALSE]
                     ELSE peers[id]]
    IN  /\ g \in threads.announcers
        /\ disc[LocalId].running
        /\ Room(LocalId, LostEvents(stale))
        /\ disc' = [disc EXCEPT ![LocalId].peers = swept]
        /\ discEvents' = Sent(LocalId, LostEvents(stale))
        /\ discOut' = DiscRet("announce", g, TRUE, stale, LostEvents(stale))
        /\ UNCHANGED <<discNet, bothUp, threads, sigVars, dbVars, ftVars, cryVars, appVars>>

\* the consumer of run g finds the flag set and an event in the channel
RunConsume(g) ==
    /\ g \in threads.consumers
    /\ disc[LocalId].running
    /\ ConsumeEvent

\* a thread of run g finds the flag cleared: it leaves its loop, the
\* announcer with a Bye that carries its local_peer_info
RunExit(g, kind) ==
    /\ g \in threads[kind]
    /\ ~disc[LocalId].running
    /\ threads' = [threads EXCEPT
                      ![kind] = @ \ {g},
                      !.byes[g] = IF kind = "announcers"
                                  THEN Append(@, threads.info[g]) ELSE @]
    /\ discOut' = DiscRet("exit", g, TRUE, kind, <<>>)
    /\ UNCHANGED <<disc, discNet, discEvents, bothUp, sigVars, dbVars, ftVars, cryVars, appVars>>

ThreadKinds == {"listeners", "announcers", "consumers"}

\* a step of the thread of one kind of run g
RunStep(g, kind) ==
    \/ kind = "listeners" /\ \E d \in RunDatagrams : RunListen(g, d)
    \/ kind = "announcers" /\ RunAnnounce(g)
    \/ kind = "consumers" /\ RunConsume(g)
    \/ RunExit(g, kind)

NextRestart ==
    \/ LocalId \notin DOMAIN keypair /\ GenerateKeypair(LocalId, SecretOf(LocalId))
    \/ StartDiscoveryCmd(HostName, SigPort)
    \/ StopDiscoveryCmd
    \/ RestartDiscoveryStop(HostName, SigPort)
    \/ RestartDiscoveryStart
    \/ \E g \in 1..MaxRuns, d \in RunDatagrams : RunListen(g, d)
    \/ \E g \in 1..MaxRuns : RunAnnounce(g)
    \/ \E g \in 1..MaxRuns : RunConsume(g)
    \/ \E g \in 1..MaxRuns, kind \in ThreadKinds : RunExit(g, kind)

SpecRestart == Init /\ [][NextRestart]_vars

\* Every thread is scheduled: a thread that is alive looks at the flag again,
\* whatever it finds there, and the command wakes from its sleep.  The
\* commands themselves are not owed.
SpecRestartFair ==
    /\ SpecRestart
    /\ WF_vars(RestartDiscoveryStart)
    /\ \A g \in 1..MaxRuns, kind \in ThreadKinds : WF_vars(RunStep(g, kind))

\* ------------------------------------ profile updates and chat messages

\* the ProfileUpdate and ChatMessage datagrams of a sender: an avatar given
\* by file id, with a port, port 0 or none, or by URL
AvatarDatagrams(from) ==
    {ProfileUpdateMsg(from, NoAvatar, FileId, port) : port \in {NoneStr, "0", FilePort}}
    \cup {ProfileUpdateMsg(from, <<"http", "//cdn/a.png">>, NoAvatar, NoneStr),
          ChatMessageMsg(from, FreshId, "hi")}

NextAvatar ==
    \/ InitApp(2, TRUE)
    \/ StartSignaling
    \/ \E from \in Nodes, src \in Addrs :
          \E msg \in AvatarDatagrams(from) : ListenerRecv(msg, src)
    \/ \E peer_id \in Nodes : RegisterPeer(peer_id, IpOf(peer_id), SigPort)
    \/ HandleProfileUpdate
    \/ HandleChatMessage

SpecAvatar == Init /\ [][NextAvatar]_vars

\* ---------------------------- a transfer manager and a remote sender

RemotePath == [dir |-> "remote", name |-> FileName]

\* the metadata the remote sender's prepare_send returned
RemoteMeta == FileMetadataOf(RemotePath, remoteFile, RemoteId)

\* a payload damaged in transit
Corrupt(buffer) ==
    IF buffer = <<>> THEN <<1>> ELSE [buffer EXCEPT ![1] = (@ + 1) % 256]

DeliveryKinds == {"honest", "corrupt", "not base64"}

\* what reaches receive_chunk of the chunk the remote get_chunk produced
Delivered(chunk_index, kind) ==
    LET chunk == FileChunkOf(remoteFile, RemoteId, chunk_index)
    IN  CASE kind = "honest" -> chunk
          [] kind = "corrupt" ->
               [chunk EXCEPT !.data =
                    Base64Encode(Corrupt(ReadChunk(remoteFile, chunk_index)))]
          [] kind = "not base64" -> [chunk EXCEPT !.data = <<NotB64>>]

SendPaths == {SourcePath, [dir |-> "home", name |-> <<"x">>]}

\* An earlier download of the same name.
EarlierPath == [dir |-> DownloadsDir, name |-> FileName]

\* the remote sender holds any file; this device holds one to offer and an
\* earlier download of the remote file's name
InitTransfer ==
    /\ SigInit
    /\ DbInit
    /\ CryInit
    /\ DiscInit
    /\ AppInit
    /\ transfers = EmptyMap
    /\ fs = Put(Put(EmptyMap, SourcePath, LocalFile), EarlierPath, <<1>>)
    /\ remoteFile \in Files
    /\ ftOut = FtRet("new", NoneStr, <<>>, FtOk(<<>>))
    /\ chunkLog = NoChunks
    /\ receiving = NotReceiving

\* The transfer commands of commands.rs are synchronous commands: each runs
\* to its end before the next.  The remote sender is asked for indices up to
\* one past its last chunk.
NextTransfer ==
    \/ \E path \in SendPaths, id \in TransferIds : PrepareSend(path, id)
    \/ PrepareReceive(RemoteMeta)
    \/ \E id \in TransferIds, index \in 0..TotalChunks(MaxFileLen) :
           GetChunk(id, index)
    \/ \E index \in 0..RemoteMeta.total_chunks, kind \in DeliveryKinds :
           ReceiveChunk(Delivered(index, kind))
    \/ \E id \in TransferIds : GetMissingChunks(id)
    \/ \E id \in TransferIds : CompleteTransfer(id)
    \/ \E id \in TransferIds : CancelTransfer(id)

SpecTransfer == InitTransfer /\ [][NextTransfer]_vars

\* ------------------------------------- chunks a peer makes up on its own

\* FileChunk values whose checksum is the checksum of their data, for the
\* first index and the first index past the remote file's chunks: the
\* receive_file_chunk command hands receive_chunk whatever chunk it is given
MadeUpChunks ==
    {[transfer_id |-> RemoteId, chunk_index |-> index, data |-> Base64Encode(<<1>>),
      checksum |-> CalculateChecksum(<<1>>)] :
        index \in {0, RemoteMeta.total_chunks}}

\* one transfer is registered under the id, by either side's call
NextChunks ==
    \/ transfers = EmptyMap /\ PrepareSend(SourcePath, RemoteId)
    \/ transfers = EmptyMap /\ PrepareReceive(RemoteMeta)
    \/ \E chunk \in MadeUpChunks : ReceiveChunk(chunk)
    \/ \E index \in 0..RemoteMeta.total_chunks : ReceiveChunk(Delivered(index, "honest"))
    \/ GetMissingChunks(RemoteId)

SpecChunks == InitTransfer /\ [][NextChunks]_vars

\* ------------------------------- a chunk and a cancellation that overlap

\* The manager called from two threads: one hands chunks of the remote file
\* to receive_chunk, the other registers and cancels the transfer.
NextCancel ==
    \/ receiving.pc = "idle" /\ transfers = EmptyMap /\ PrepareReceive(RemoteMeta)
    \/ \E index \in 0..RemoteMeta.total_chunks - 1 :
          ReceiveChunkLookup(Delivered(index, "honest"))
    \/ ReceiveChunkOpen
    \/ ReceiveChunkWrite
    \/ ReceiveChunkUpdate
    \/ CancelTransfer(RemoteId)

SpecCancel == InitTransfer /\ [][NextCancel]_vars

\* ------------------------------------------------- properties: relays

\* The step is a relay command: every other step of the relays' specification
\* changes the discovery state or names its own operation.
RelayStep(op) == sigOut'.op = op /\ UNCHANGED discVars

\* the address the discovery table gives for a peer
DiscoveredAddr(peer_id) ==
    Addr(disc[LocalId].peers[peer_id].ip_address, disc[LocalId].peers[peer_id].port)

\* the first send_message of a relay to the peer ends with the not-found error
\* and the discovery table knows the peer
FallsBack(peer_id) ==
    /\ sigSocket
    /\ peer_id \notin DOMAIN sigPeers
    /\ peer_id \in DOMAIN disc[LocalId].peers

\* C13: send_message to a peer that has no binding, on a started signaling
\* server, fails with the peer-not-found error, sends no datagram and leaves
\* the peer table as it was.
C13_UnboundSendFails ==
    [][(RelayStep("send_signaling_message") /\ sigSocket
          /\ sigOut'.peer \notin DOMAIN sigPeers)
       => /\ ~sigOut'.ok
          /\ sigOut'.err = "Peer not found"
          /\ sigOut'.sent = <<>>
          /\ sigPeers' = sigPeers]_vars

C13_Witness ==
    /\ sigOut.op = "send_signaling_message"
    /\ sigSocket
    /\ sigOut.peer \notin DOMAIN sigPeers
    /\ DOMAIN sigPeers # {}
    /\ sigOut.err = "Peer not found"

\* C14: relay_chat_message calls send_message once or twice.  It calls it
\* twice exactly when the first call found no binding and the discovery table
\* knows the peer; the peer is then bound to the discovered ip and port before
\* the second call.  A peer unknown to both ends the command with an error
\* after one call, and so does any other send error; in both cases no binding
\* changes and nothing is sent.
C14_RelayRetriesOnce ==
    [][RelayStep("relay_chat_message")
       => LET peer_id == sigOut'.peer
          IN  /\ sigOut'.attempts \in {1, 2}
              /\ Len(sigOut'.sent) <= 1
              /\ sigOut'.attempts = 2 <=> FallsBack(peer_id)
              /\ FallsBack(peer_id) =>
                    /\ sigPeers' = Put(sigPeers, peer_id, DiscoveredAddr(peer_id))
                    /\ sigOut'.ok
                    /\ sigOut'.sent = <<[addr |-> DiscoveredAddr(peer_id),
                                         msg |-> sigOut'.msg]>>
              /\ ~FallsBack(peer_id) => sigPeers' = sigPeers
              /\ (~FallsBack(peer_id) /\ peer_id \notin DOMAIN sigPeers) =>
                    ~sigOut'.ok /\ sigOut'.sent = <<>>
              /\ ~sigSocket => sigOut'.err = "Socket not initialized"]_vars

C14_Witness ==
    /\ sigOut.op = "relay_chat_message"
    /\ sigOut.attempts = 2
    /\ sigOut.ok
    /\ sigOut.peer \in DOMAIN disc[LocalId].peers
    /\ sigPeers = Put(EmptyMap, sigOut.peer, DiscoveredAddr(sigOut.peer))
    /\ Len(sigOut.sent) = 1

\* C19: send_group_message, with the local user row and the group present,
\* stores the message and attempts one GroupChatMessage for every member
\* other than the local device and for nobody else.  A member without binding
\* that the discovery table knows is bound and sent to a second time; a member
\* the send fails for gets nothing, and the command still succeeds with the
\* message stored and the other members served.
C19_GroupFanOut ==
    [][(RelayStep("send_group_message") /\ LocalId \in Ids(users)
          /\ sigOut'.peer \in Ids(groups))
       => LET g == sigOut'.peer
              others == {r.user_id : r \in {r \in groupMembers : r.group_id = g}}
                          \ {LocalId}
              Datagram(m, addr) ==
                  <<[addr |-> addr,
                     msg |-> [type |-> "GroupChatMessage", from |-> LocalId, to |-> m,
                              group_id |-> g, id |-> sigOut'.msg.id,
                              content |-> sigOut'.msg.content,
                              message_type |-> sigOut'.msg.message_type,
                              sender_name |-> sigOut'.msg.sender_name,
                              timestamp |-> sigOut'.msg.created_at]]>>
          IN  /\ sigOut'.ok
              /\ groupMessages' = groupMessages \cup {sigOut'.msg}
              /\ sigOut'.msg.id \notin Ids(groupMessages)
              /\ DOMAIN sigOut'.attempts = others
              /\ DOMAIN sigOut'.sent = others
              /\ \A m \in others :
                    /\ sigOut'.attempts[m] = IF FallsBack(m) THEN 2 ELSE 1
                    /\ sigOut'.sent[m] =
                          IF ~sigSocket THEN <<>>
                          ELSE IF m \in DOMAIN sigPeers THEN Datagram(m, sigPeers[m])
                          ELSE IF FallsBack(m) THEN Datagram(m, DiscoveredAddr(m))
                          ELSE <<>>
                    /\ FallsBack(m) => /\ m \in DOMAIN sigPeers'
                                       /\ sigPeers'[m] = DiscoveredAddr(m)
              /\ \A id \in DOMAIN sigPeers' :
                    \/ (id \in DOMAIN sigPeers /\ sigPeers'[id] = sigPeers[id])
                    \/ (id \in others /\ FallsBack(id))]_vars

C19_Witness ==
    /\ sigOut.op = "send_group_message"
    /\ sigOut.ok
    /\ sigOut.msg \in groupMessages
    /\ DOMAIN sigOut.attempts = {PeerX, PeerY, PeerZ}
    /\ sigOut.attempts[PeerX] = 2
    /\ sigOut.sent[PeerX] # <<>>
    /\ sigOut.sent[PeerY] # <<>>
    /\ sigOut.sent[PeerZ] = <<>>


\* ------------------------------------------------ properties: signaling

\* The step is the listener taking a datagram that claims an id other than the
\* local one, already bound to an address that is not the datagram's source.
SpoofedDatagramStep ==
    /\ sigOut'.op = "recv"
    /\ sigOut'.msg.from # LocalId
    /\ sigOut'.msg.from \in DOMAIN sigPeers
    /\ sigPeers[sigOut'.msg.from] # sigOut'.src

\* C1: once X (not the local id) is bound to a1, a datagram of any variant of
\* the catalog that claims from = X and arrives from a2 # a1 is dropped: it is
\* not forwarded to the orchestrator, no event is emitted and the Store does
\* not change.
C1_SpoofedDatagramDropped ==
    [][SpoofedDatagramStep =>
          /\ eventChannel' = eventChannel
          /\ ~sigOut'.ok
          /\ sigOut'.emits = <<>>
          /\ UNCHANGED dbVars]_vars

\* C2: no received datagram changes an existing binding, a binding changes
\* only through register_peer, and the first datagram claiming from = X while
\* X is unbound binds X to its source.
C2_BindingFrame ==
    [][/\ \A id \in DOMAIN sigPeers :
             /\ id \in DOMAIN sigPeers'
             /\ sigPeers'[id] # sigPeers[id] => sigOut'.op = "register_peer"
       /\ (sigOut'.op = "recv" /\ sigOut'.msg.from \notin DOMAIN sigPeers)
             => /\ sigOut'.msg.from \in DOMAIN sigPeers'
                /\ sigPeers'[sigOut'.msg.from] = sigOut'.src
       /\ (SpoofedDatagramStep /\ sigOut'.msg.type = "ScreenShareEnded")
             => ~sigOut'.ok /\ sigPeers' = sigPeers]_vars

\* --------------------------------------------------- properties: crypto

\* a and b hold keypairs, and each has established its session with the
\* other's current public key under its own current keypair.
MutualSessions(a, b) ==
    /\ a \in DOMAIN keypair /\ b \in DOMAIN keypair
    /\ HasSession(a, b) /\ HasSession(b, a)
    /\ sessions[a][b].peer_public_key = keypair[b].public_key
    /\ sessions[a][b].own_public_key = keypair[a].public_key
    /\ sessions[b][a].peer_public_key = keypair[a].public_key
    /\ sessions[b][a].own_public_key = keypair[b].public_key

\* b has just run decrypt on the envelope a sealed for it.
DecryptedBy(b, a) ==
    /\ cryOut.op = "decrypt" /\ cryOut.node = b /\ cryOut.peer = a
    /\ wire.origin.by = a /\ wire.origin.to = b

\* C9: once A and B have each established a session with the other's public
\* key, both hold the same session key, and B's decrypt of the envelope A's
\* encrypt(P) produced under that session returns exactly P.
C9_RoundTrip ==
    \A a \in Nodes :
        LET b == Other(a)
        IN  MutualSessions(a, b) =>
              /\ sessions[a][b].shared_secret = sessions[b][a].shared_secret
              /\ (DecryptedBy(b, a) /\ wire.origin.tamper = "none"
                    /\ wire.origin.key = sessions[a][b].shared_secret)
                 => cryOut.ok /\ cryOut.value = wire.origin.plaintext

\* A non-empty plaintext came back from an exchange between devices that hold
\* different keypairs.
C9_Witness ==
    \E a \in Nodes :
        /\ MutualSessions(a, Other(a))
        /\ keypair[a].secret_key # keypair[Other(a)].secret_key
        /\ DecryptedBy(Other(a), a) /\ wire.origin.tamper = "none"
        /\ cryOut.ok /\ cryOut.value = wire.origin.plaintext
        /\ cryOut.value # <<>>

GenericDecryptError == "Decryption failed - invalid ciphertext or key"

\* encrypt or decrypt for a peer with no session returns an error.
NoSessionIsError ==
    (cryOut.op \in {"encrypt", "decrypt"} /\ ~HasSession(cryOut.node, cryOut.peer))
        => ~cryOut.ok /\ cryOut.err = "No session established with peer"

ChatMessageConsumedStep ==
    sigOut'.op = "consume" /\ sigOut'.msg.type = "ChatMessage"

\* C7: create_message with an id that is already stored leaves the row as it
\* is (content, is_read, is_delivered), returns no error and adds no second
\* row: replaying a relayed ChatMessage leaves exactly one stored message.
C7_CreateMessageIdempotent ==
    [][/\ \A r1, r2 \in messages' : r1.id = r2.id => r1 = r2
       /\ (ChatMessageConsumedStep /\ sigOut'.msg.id \in Ids(messages))
             => /\ messages' = messages
                /\ sigOut'.ok
                /\ Cardinality({r \in messages' : r.id = sigOut'.msg.id}) = 1
       /\ \A content \in {"hi", "yo"}, from \in {PeerX, LocalId} :
             LET m == IncomingMessage(ChatMessageMsg(from, FreshId, content))
             IN  m.id \in Ids(messages)
                   => CreateMessage(messages, users, m) = [ok |-> TRUE, rows |-> messages]
      ]_vars

\* A ChatMessage was replayed with another content onto a row already read:
\* the stored row is the old one.
C7_Witness ==
    /\ sigOut.op = "consume" /\ sigOut.msg.type = "ChatMessage"
    /\ sigOut.ok
    /\ \E r \in messages :
          /\ r.id = sigOut.msg.id
          /\ r.content # sigOut.msg.content
          /\ r.is_read

C15_ReadImpliesDelivered ==
    \A r \in messages : r.is_read => r.is_delivered

\* ------------------------------------------------- properties: Store

\* C12: get_last_messages(me) returns one row for every peer that shares a
\* message with me and no other row; the row of a peer is taken from one of
\* the messages shared with that peer, with the greatest created_at among
\* them, and its is_from_me tells whether me sent that message.
C12_LastMessagePerPeer ==
    sigOut.op = "get_last_messages" =>
        LET me == sigOut.msg.id
            rows == sigOut.rows
            mine == {r \in messages : r.sender_id = me \/ r.receiver_id = me}
            PeerOf(r) == IF r.sender_id = me THEN r.receiver_id ELSE r.sender_id
            With(p) == {r \in mine : PeerOf(r) = p}
        IN  /\ \A r \in mine :
                  Cardinality({i \in DOMAIN rows : rows[i].peer_id = PeerOf(r)}) = 1
            /\ \A i \in DOMAIN rows :
                  \E r \in With(rows[i].peer_id) :
                      /\ rows[i].created_at = r.created_at
                      /\ rows[i].content = r.content
                      /\ rows[i].is_from_me = (r.sender_id = me)
                      /\ \A q \in With(rows[i].peer_id) :
                            TimeRank(q.created_at) <= TimeRank(r.created_at)

C12_Witness ==
    /\ sigOut.op = "get_last_messages"
    /\ Cardinality(messages) = 3
    /\ Len(sigOut.rows) = 2
    /\ \E i, j \in DOMAIN sigOut.rows :
          /\ sigOut.rows[i].is_from_me
          /\ ~sigOut.rows[j].is_from_me
          /\ sigOut.rows[i].created_at = "t1"
    /\ \E r \in messages : r.created_at = "t0"

\* C16: under create_user, upsert_peer_as_user, create_message,
\* delete_message, delete_all_messages_with_peer and delete_user, the sender
\* and the receiver of every stored message are stored users; a delete_user
\* of a user some message names and a create_message of a new message that
\* names a missing user fail, and a failed operation changes no row.
C16_MessagesReferenceUsers ==
    /\ [](\A r \in messages : r.sender_id \in Ids(users) /\ r.receiver_id \in Ids(users))
    /\ [][/\ ~sigOut'.ok => UNCHANGED <<users, messages>>
          /\ (/\ sigOut'.op = "delete_user"
              /\ \E r \in messages : sigOut'.msg.id \in {r.sender_id, r.receiver_id})
             => ~sigOut'.ok
          /\ (/\ sigOut'.op = "create_message"
              /\ sigOut'.msg.id \notin Ids(messages)
              /\ ~({sigOut'.msg.sender_id, sigOut'.msg.receiver_id} \subseteq Ids(users)))
             => ~sigOut'.ok]_vars

C16_Witness ==
    /\ sigOut.op = "delete_user"
    /\ ~sigOut.ok
    /\ \E r \in messages : sigOut.msg.id \in {r.sender_id, r.receiver_id}
    /\ sigOut.msg.id \in Ids(users)

\* C17: every group member row and group message row names a stored group;
\* add_group_member and send_group_message for a missing group fail and store
\* nothing; when delete_group(g) has returned no row of g is left in the three
\* tables; and no other Store method runs between the statements of a
\* delete_group.
C17_GroupRowsNeedGroup ==
    /\ [](\A r \in groupMembers \cup groupMessages : r.group_id \in Ids(groups))
    /\ [][/\ (/\ sigOut'.op \in {"add_group_member", "send_group_message"}
              /\ sigOut'.msg.group_id \notin Ids(groups))
             => ~sigOut'.ok /\ UNCHANGED <<groups, groupMembers, groupMessages>>
          /\ (sigOut'.op = "delete_group" /\ sigOut'.ok)
             => /\ sigOut'.msg.group_id \notin Ids(groups')
                /\ \A r \in groupMembers' \cup groupMessages' :
                      r.group_id # sigOut'.msg.group_id
          /\ dbConn # ConnFree
             => /\ sigOut'.op = "delete_group"
                /\ sigOut'.msg.group_id = dbConn.group_id]_vars

C17_Witness ==
    /\ sigOut.op = "delete_group"
    /\ sigOut.ok
    /\ groupMembers # {}
    /\ groupMessages # {}
    /\ Cardinality(groups) = 1

\* ---------------------------------------------- properties: discovery

\* n's table holds m as m advertises itself, at the address m sends from
Knows(n, m) ==
    \E p \in GetPeers(n) :
        /\ p.device_id = m
        /\ p.username = disc[m].info.username
        /\ p.port = disc[m].info.port
        /\ p.public_key = disc[m].info.public_key
        /\ p.ip_address = IpOf(m)

\* C11: once two managers with distinct device ids have both run for two
\* announce periods on one domain that delivers its datagrams, each is in the
\* other's get_peers with the username and port it advertises and the
\* address its datagrams come from; no stored peer has the address 0.0.0.0.
C11_DiscoverySymmetry ==
    /\ bothUp >= 2 * ANNOUNCE_INTERVAL_SECS
       => \A n \in Nodes, m \in Nodes : n # m => Knows(n, m)
    /\ \A n \in Nodes : \A p \in GetPeers(n) :
          p.ip_address # "0.0.0.0" /\ p.ip_address = IpOf(p.device_id)

C11_Witness ==
    /\ bothUp >= 2 * ANNOUNCE_INTERVAL_SECS
    /\ \A n \in Nodes, m \in Nodes : n # m => Knows(n, m)
    /\ \A n \in Nodes : disc[n].info.ip_address = "0.0.0.0"

\* n's table has the peer, online
OnlineAt(n, id) == id \in DOMAIN disc[n].peers /\ disc[n].peers[id].is_online

\* the step is the Hello and sweep of n's running announcer
SweepStep(n) ==
    /\ disc[n].announcer /\ disc[n].running /\ disc[n].sleep = 0
    /\ discOut'.op = "announce"
    /\ discOut'.node = n

\* C20: a sweep demotes every peer that is online with a last Hello more
\* than 15 s old and sends one PeerLost for each, and leaves every other
\* peer as it is; a peer whose announcer has ended is in time no longer
\* online in the table of a manager whose announcer runs.
C20_LivenessSweep ==
    /\ [][\A n \in Nodes :
            SweepStep(n) =>
              LET old == disc[n].peers
                  new == disc'[n].peers
                  due == {id \in DOMAIN old :
                             old[id].is_online /\ old[id].age > PEER_TIMEOUT_SECS}
                  lost == discOut'.events
              IN  /\ DOMAIN new = DOMAIN old
                  /\ \A id \in due : ~new[id].is_online
                  /\ \A id \in DOMAIN old \ due : new[id] = old[id]
                  /\ Len(lost) = Cardinality(due)
                  /\ \A id \in due :
                        \E i \in 1..Len(lost) :
                            lost[i] = [type |-> "PeerLost", device_id |-> id]
                  /\ n = LocalId => discEvents' = discEvents \o lost]_vars
    /\ (OnlineAt(LocalId, PeerX) /\ ~disc[PeerX].announcer)
          ~> ~OnlineAt(LocalId, PeerX)

C20_Witness ==
    /\ discOut.op = "announce"
    /\ discOut.node = LocalId
    /\ discOut.events = <<[type |-> "PeerLost", device_id |-> PeerX]>>
    /\ PeerX \in DOMAIN disc[LocalId].peers
    /\ ~disc[LocalId].peers[PeerX].is_online
    /\ disc[LocalId].peers[PeerX].age > PEER_TIMEOUT_SECS
    /\ disc[PeerX].running

\* The step is the local listener taking a packet off its socket.
ListenStep ==
    /\ discOut'.op = "listen"
    /\ discOut'.node = LocalId
    /\ discOut'.value \in discNet
    /\ discNet' = discNet \ {discOut'.value}

\* the table record a Hello packet from an address leaves
HelloRecord(d) ==
    [device_id |-> d.peer.device_id, username |-> d.peer.username,
     ip_address |-> d.src, port |-> d.peer.port, public_key |-> d.peer.public_key,
     is_online |-> TRUE, age |-> 0]

\* what the record says to the outside
HelloInfo(d) ==
    [device_id |-> d.peer.device_id, username |-> d.peer.username,
     ip_address |-> d.src, port |-> d.peer.port, public_key |-> d.peer.public_key,
     is_online |-> TRUE]

\* C21: a Hello of an id that is not in the table inserts it and emits
\* PeerDiscovered; a Hello of an id in the table, online or not, rewrites the
\* record, online, and emits PeerUpdated; a Bye of an id in the table marks
\* it offline and emits PeerLost; a Bye of an unknown id changes and emits
\* nothing.  No id leaves the table, so PeerDiscovered comes once per id.
C21_ReceiveEvents ==
    /\ [][DOMAIN disc[LocalId].peers \subseteq DOMAIN disc'[LocalId].peers]_vars
    /\ [][LET d == discOut'.value
              id == d.peer.device_id
              old == disc[LocalId].peers
              new == disc'[LocalId].peers
              sent == discOut'.events
          IN  (ListenStep /\ id # LocalId) =>
                /\ discEvents' = discEvents \o sent
                /\ \A other \in DOMAIN old \ {id} : new[other] = old[other]
                /\ DOMAIN new \subseteq DOMAIN old \cup {id}
                /\ (d.msg_type = "Hello" /\ id \notin DOMAIN old) =>
                      /\ new[id] = HelloRecord(d)
                      /\ sent = <<[type |-> "PeerDiscovered", peer |-> HelloInfo(d)]>>
                /\ (d.msg_type = "Hello" /\ id \in DOMAIN old) =>
                      /\ new[id] = HelloRecord(d)
                      /\ sent = <<[type |-> "PeerUpdated", peer |-> HelloInfo(d)]>>
                /\ (d.msg_type = "Bye" /\ id \in DOMAIN old) =>
                      /\ new[id] = [old[id] EXCEPT !.is_online = FALSE]
                      /\ sent = <<[type |-> "PeerLost", device_id |-> id]>>
                /\ (d.msg_type = "Bye" /\ id \notin DOMAIN old) =>
                      /\ new = old
                      /\ sent = <<>>]_vars

C21_Witness ==
    /\ sigOut.op = "peer-lost"
    /\ discOut.op = "listen"
    /\ discOut.events # <<>>
    /\ discOut.events[1].type = "PeerUpdated"
    /\ discOut.value.peer.username # XName
    /\ disc[LocalId].peers[PeerX].is_online

\* the device an event is about
EventDevice(event) ==
    IF event.type = "PeerLost" THEN event.device_id ELSE event.peer.device_id

\* C29: a packet that carries the local device id leaves the table and the
\* event channel as they are: the table never holds the local device id and
\* no event is about it.
C29_OwnPacketsDropped ==
    /\ [](/\ \A n \in Nodes : n \notin DOMAIN disc[n].peers
          /\ \A i \in 1..Len(discEvents) : EventDevice(discEvents[i]) # LocalId)
    /\ [][(ListenStep /\ discOut'.value.peer.device_id = LocalId) =>
             /\ disc' = disc
             /\ discOut'.events = <<>>
             /\ discEvents' = discEvents]_vars

C29_Witness ==
    /\ discOut.op = "listen"
    /\ discOut.value.peer.device_id = LocalId
    /\ discOut.value.msg_type = "Hello"
    /\ discOut.value.src # IpOf(LocalId)
    /\ DOMAIN disc[LocalId].peers = {PeerX}

\* The step is the consumer thread taking an event off the channel.
DiscoveryConsumedStep ==
    /\ discEvents # <<>>
    /\ discOut'.op = "consume"
    /\ discEvents' = Tail(discEvents)

\* C30: the consumer, on PeerDiscovered or PeerUpdated, upserts the peer's
\* user row with the advertised name and key, online, binds the device id to
\* the observed address and the advertised port whatever it was bound to,
\* and emits the event; on PeerLost it emits the event and changes neither
\* the Store nor the signaling peers.
C30_DiscoveryEventsConsumed ==
    [][DiscoveryConsumedStep =>
         LET event == Head(discEvents)
         IN  /\ <<messages, groups, groupMembers, groupMessages>>' =
                   <<messages, groups, groupMembers, groupMessages>>
             /\ IF event.type = "PeerLost"
                THEN /\ users' = users
                     /\ sigPeers' = sigPeers
                     /\ sigOut'.emits = <<"peer-lost">>
                ELSE LET id == event.peer.device_id
                     IN  /\ id \in Ids(users')
                         /\ Row(users', id).username = event.peer.username
                         /\ Row(users', id).public_key = event.peer.public_key
                         /\ Row(users', id).is_online
                         /\ \A r \in users : r.id # id => r \in users'
                         /\ Ids(users') = Ids(users) \cup {id}
                         /\ DOMAIN sigPeers' = DOMAIN sigPeers \cup {id}
                         /\ sigPeers'[id] = [ip |-> event.peer.ip_address,
                                             port |-> event.peer.port]
                         /\ \A other \in DOMAIN sigPeers \ {id} :
                               sigPeers'[other] = sigPeers[other]
                         /\ sigOut'.emits =
                               <<IF event.type = "PeerDiscovered"
                                 THEN "peer-discovered" ELSE "peer-updated">>]_vars

C30_Witness ==
    /\ discOut.op = "consume"
    /\ discOut.value.type = "PeerUpdated"
    /\ sigOut.emits = <<"peer-updated">>
    /\ PeerX \in DOMAIN sigPeers
    /\ sigPeers[PeerX].ip # IpOf(PeerX)
    /\ PeerX \in Ids(users)
    /\ Row(users, PeerX).username = HostName

\* ------------------------------------------------ properties: avatars

\* The step is the consumer handling a message of the type.
ConsumedStep(type) ==
    /\ eventChannel # <<>>
    /\ Head(eventChannel).type = type
    /\ sigOut'.op = "consume"
    /\ eventChannel' = Tail(eventChannel)

\* the avatar stored for a user, NoAvatar without a row
AvatarOf(U, id) == IF id \in Ids(U) THEN Row(U, id).avatar_path ELSE NoAvatar

\* the ProfileUpdate at the head of the channel names a file and no URL
NamesFile ==
    /\ Head(eventChannel).avatar_url = NoAvatar
    /\ Head(eventChannel).avatar_file_id # NoAvatar

\* C18 as stated: a ProfileUpdate naming file f and port p, handled while its
\* sender has no signaling address, stores the placeholder filemeta:f:p; the
\* next ChatMessage of the sender replaces a placeholder by
\* http://ip:p/file/f; an avatar that is no placeholder is left as it is.
C18_DeferredAvatarResolved ==
    [][LET from == Head(eventChannel).from
           old == AvatarOf(users, from)
           new == AvatarOf(users', from)
       IN  /\ (ConsumedStep("ProfileUpdate") /\ NamesFile /\ from \notin DOMAIN sigPeers)
              => new[1] = "filemeta"
           /\ (ConsumedStep("ChatMessage") /\ Len(old) >= 3 /\ old[1] = "filemeta")
              => new[1] = "http"
           /\ (ConsumedStep("ChatMessage") /\ ~(Len(old) >= 3 /\ old[1] = "filemeta"))
              => new = old]_vars

\* C18, amended: a ProfileUpdate naming file f is handled with its sender
\* bound, and stores http://ip:p/file/f at once (the bound port without p),
\* unless the sender is the local device id without binding, which stores
\* filemeta:f:p (0 without p).  A ChatMessage replaces the placeholder
\* filemeta:f:p of its sender by http://ip:p/file/f, with the bound port when
\* p is 0, if the sender is bound, and leaves every other avatar as it is.
C18_AvatarResolution ==
    [][LET msg == Head(eventChannel)
           from == msg.from
           old == AvatarOf(users, from)
           new == AvatarOf(users', from)
           bound == from \in DOMAIN sigPeers
           pending == Len(old) >= 3 /\ old[1] = "filemeta"
       IN  /\ (ConsumedStep("ProfileUpdate") /\ NamesFile)
              => /\ from # LocalId => bound
                 /\ bound =>
                      new = <<"http", "//" \o sigPeers[from].ip,
                              [port |-> IF msg.avatar_file_port = NoneStr
                                        THEN sigPeers[from].port
                                        ELSE msg.avatar_file_port,
                               file |-> msg.avatar_file_id[1]]>>
                 /\ ~bound =>
                      new = <<"filemeta", msg.avatar_file_id[1],
                              IF msg.avatar_file_port = NoneStr THEN "0"
                              ELSE msg.avatar_file_port>>
           /\ (ConsumedStep("ChatMessage") /\ pending /\ bound)
              => new = <<"http", "//" \o sigPeers[from].ip,
                         [port |-> IF old[3] = "0" THEN sigPeers[from].port ELSE old[3],
                          file |-> old[2]]>>
           /\ (ConsumedStep("ChatMessage") /\ ~(pending /\ bound))
              => new = old]_vars

C18_Witness ==
    /\ sigOut.op = "consume"
    /\ sigOut.msg.type = "ChatMessage"
    /\ sigOut.emits = <<"peer-updated", "peer-updated", "chat-message-received">>
    /\ sigOut.msg.from \in DOMAIN sigPeers
    /\ AvatarOf(users, sigOut.msg.from) =
          <<"http", "//" \o sigPeers[sigOut.msg.from].ip,
            [port |-> SigPort, file |-> "f1"]>>

\* ---------------------------------------------- properties: file transfer

\* The remote file's transfer is registered here as a receiver, with the
\* sender's metadata.
ReceivingRemote ==
    /\ RemoteId \in DOMAIN transfers
    /\ ~transfers[RemoteId].is_sender
    /\ transfers[RemoteId].total_chunks = RemoteMeta.total_chunks
    /\ transfers[RemoteId].checksum = RemoteMeta.checksum

\* Every chunk of the remote file was handed to receive_chunk, as get_chunk
\* produced it, since prepare_receive.
AllDelivered == \A i \in 0..(RemoteMeta.total_chunks - 1) : i \in chunkLog.delivered

InSeq(s, x) == \E k \in 1..Len(s) : s[k] = x

\* C3: transfer idempotence.  Once every chunk index of the sender's file has
\* been delivered to the receiver at least once as get_chunk produced it, in
\* whatever order and however often, and whatever else was handed in,
\* get_missing_chunks is empty, the file on disk is the sender's file with the
\* metadata's whole-file checksum, and complete_transfer returns success with
\* that checksum.
C3_TransferIdempotent ==
    (ReceivingRemote /\ AllDelivered) =>
        LET t == transfers[RemoteId]
        IN  /\ MissingChunks(transfers, RemoteId) = <<>>
            /\ t.file_path \in DOMAIN fs
            /\ fs[t.file_path] = remoteFile
            /\ CalculateChecksum(fs[t.file_path]) = RemoteMeta.checksum
            /\ CompleteTransferResult(transfers, fs, RemoteId).ok
            /\ CompleteTransferResult(transfers, fs, RemoteId).value.success
            /\ (ftOut.op = "complete_transfer" =>
                    /\ ftOut.ok
                    /\ ftOut.value.success
                    /\ ftOut.value.checksum = RemoteMeta.checksum
                    /\ t.is_complete)

\* A file of two chunks or more, not all zeros, has been delivered in full
\* and complete_transfer has returned success.
C3_Witness ==
    /\ ReceivingRemote
    /\ AllDelivered
    /\ RemoteMeta.total_chunks >= 2
    /\ remoteFile # Zeros(Len(remoteFile))
    /\ ftOut.op = "complete_transfer"
    /\ ftOut.ok
    /\ ftOut.value.success

\* C4: bitmap consistency.  For a registered transfer get_missing_chunks
\* returns exactly the indices below total_chunks whose bitmap entry is
\* false; the index of a receive_chunk that returned success is not among
\* them; an index for which no receive_chunk has returned success since the
\* transfer was registered is among them.
C4_BitmapConsistency ==
    \A id \in DOMAIN transfers :
        LET t == transfers[id]
            missing == MissingChunks(transfers, id)
        IN  /\ Len(t.received_chunks) = t.total_chunks
            /\ \A k \in 1..Len(missing) : missing[k] \in 0..(t.total_chunks - 1)
            /\ \A i \in 0..(t.total_chunks - 1) :
                   /\ InSeq(missing, i) <=> ~t.received_chunks[i + 1]
                   /\ i \notin chunkLog.acked => InSeq(missing, i)
            /\ (ftOut.op = "receive_chunk" /\ ftOut.id = id /\ ftOut.ok
                    /\ ftOut.value.success)
                   => ~InSeq(missing, ftOut.value.chunk_index)
            /\ (ftOut.op = "get_missing_chunks" /\ ftOut.id = id)
                   => ftOut.value = missing

\* receive_chunk has just returned success for one index of a receiver's
\* transfer while another index is still missing.
C4_Witness ==
    /\ ReceivingRemote
    /\ ftOut.op = "receive_chunk"
    /\ ftOut.ok
    /\ ftOut.value.success
    /\ ftOut.value.chunk_index < transfers[RemoteId].total_chunks
    /\ MissingChunks(transfers, RemoteId) # <<>>

\* The step registered a transfer under id.
Created(id) ==
    /\ ftOut'.op \in {"prepare_send", "prepare_receive"}
    /\ ftOut'.id = id
    /\ ftOut'.ok

\* C5 as claimed: every transfer's bitmap is as long as its total_chunks and
\* keeps its length while the transfer is registered, and a transfer whose
\* completion flag is set has every bitmap entry set.
C5_CompletionImpliesAllReceived ==
    [][\A id \in DOMAIN transfers' :
           LET t == transfers'[id]
           IN  /\ Len(t.received_chunks) = t.total_chunks
               /\ (id \in DOMAIN transfers /\ ~Created(id))
                      => Len(t.received_chunks) = Len(transfers[id].received_chunks)
               /\ t.is_complete =>
                      \A i \in 1..Len(t.received_chunks) : t.received_chunks[i]]_vars

\* C5 amended: every transfer's bitmap is as long as its total_chunks and
\* keeps its length while the transfer is registered; the completion flag is
\* false at registration, only complete_transfer changes it, and
\* complete_transfer sets it to whether the local file's whole-file checksum
\* equals the expected checksum, whatever the bitmap holds.
C5_BitmapFixedCompletionByChecksum ==
    [][\A id \in DOMAIN transfers' :
           LET t == transfers'[id]
           IN  /\ Len(t.received_chunks) = t.total_chunks
               /\ (id \in DOMAIN transfers /\ ~Created(id))
                      => /\ Len(t.received_chunks) = Len(transfers[id].received_chunks)
                         /\ t.total_chunks = transfers[id].total_chunks
               /\ Created(id) => ~t.is_complete
               /\ (ftOut'.op = "complete_transfer" /\ ftOut'.id = id)
                      => /\ t.file_path \in DOMAIN fs
                         /\ t.is_complete =
                                (CalculateChecksum(fs[t.file_path]) = t.checksum)
               /\ (id \in DOMAIN transfers /\ ~Created(id)
                       /\ ftOut'.op # "complete_transfer")
                      => t.is_complete = transfers[id].is_complete]_vars

\* complete_transfer has set the completion flag of a receiver's transfer
\* whose bitmap still has an entry that is false.
C5_Witness ==
    /\ ReceivingRemote
    /\ ftOut.op = "complete_transfer"
    /\ transfers[RemoteId].is_complete
    /\ \E i \in 1..transfers[RemoteId].total_chunks :
           ~transfers[RemoteId].received_chunks[i]

\* C6: integrity failure is a negative ack.  When the payload of a chunk
\* decodes and its SHA-256 differs from the chunk's checksum, receive_chunk
\* returns Ok with success false for that index, no bitmap entry changes (an
\* entry that is false remains false) and no byte of any file changes.
C6_MismatchIsNegativeAck ==
    [][(/\ ftOut'.op = "receive_chunk"
        /\ Base64Decode(ftOut'.arg.data).ok
        /\ CalculateChecksum(Base64Decode(ftOut'.arg.data).bytes)
               # ftOut'.arg.checksum)
       => /\ ftOut'.ok
          /\ ~ftOut'.value.success
          /\ ftOut'.value.chunk_index = ftOut'.arg.chunk_index
          /\ transfers' = transfers
          /\ fs' = fs]_vars

\* A chunk damaged in transit has been refused for an index of a receiver's
\* transfer that is still missing.
C6_Witness ==
    /\ ReceivingRemote
    /\ ftOut.op = "receive_chunk"
    /\ ftOut.ok
    /\ ~ftOut.value.success
    /\ ftOut.value.chunk_index < transfers[RemoteId].total_chunks
    /\ ~transfers[RemoteId].received_chunks[ftOut.value.chunk_index + 1]
    /\ fs[transfers[RemoteId].file_path] # remoteFile

\* the paths of a file system other than one
PathsBut(F, path) == DOMAIN F \ {path}

\* C22: cancel_transfer(id) returns Ok and removes the entry; it deletes the
\* transfer's local file if the transfer is a receiver's and not complete,
\* and no file otherwise: not a sender's, not a completed receiver's, none
\* for an unknown id.  While the id is not registered, get_chunk,
\* receive_chunk of a chunk with a valid checksum and complete_transfer
\* return "Transfer not found".
C22_CancelRemovesEntry ==
    [][\A id \in TransferIds :
          /\ (ftOut'.op = "cancel_transfer" /\ ftOut'.id = id) =>
                /\ ftOut'.ok
                /\ id \notin DOMAIN transfers'
                /\ \A other \in DOMAIN transfers \ {id} :
                      other \in DOMAIN transfers' /\ transfers'[other] = transfers[other]
                /\ id \notin DOMAIN transfers => fs' = fs
                /\ id \in DOMAIN transfers =>
                      LET t == transfers[id]
                      IN  /\ (~t.is_sender /\ ~t.is_complete) =>
                                /\ t.file_path \notin DOMAIN fs'
                                /\ \A p \in PathsBut(fs, t.file_path) :
                                      p \in DOMAIN fs' /\ fs'[p] = fs[p]
                          /\ (t.is_sender \/ t.is_complete) => fs' = fs
          /\ (/\ ftOut'.id = id
              /\ id \notin DOMAIN transfers
              /\ \/ ftOut'.op \in {"get_chunk", "complete_transfer"}
                 \/ /\ ftOut'.op = "receive_chunk"
                    /\ Base64Decode(ftOut'.arg.data).ok
                    /\ CalculateChecksum(Base64Decode(ftOut'.arg.data).bytes)
                          = ftOut'.arg.checksum) =>
                /\ ~ftOut'.ok
                /\ ftOut'.err = "Transfer not found"
                /\ transfers' = transfers
                /\ fs' = fs]_vars

\* A receiver's transfer that had taken a chunk was cancelled and its partial
\* file is gone; the earlier download and the file offered are still there.
C22_Witness ==
    /\ ftOut.op = "cancel_transfer"
    /\ transfers = EmptyMap
    /\ chunkLog.acked # {}
    /\ Downloads(fs) = {EarlierPath}
    /\ SourcePath \in DOMAIN fs

\* C23: complete_transfer of a registered transfer whose file can be read
\* returns Ok with the file's recomputed checksum and success = whether it
\* equals the expected one, and sets the completion flag to that; on a
\* mismatch the transfer stays registered, not complete, with its bitmap,
\* its path and its file as they were.
C23_CompleteByChecksum ==
    [][\A id \in TransferIds :
          (/\ ftOut'.op = "complete_transfer"
           /\ ftOut'.id = id
           /\ id \in DOMAIN transfers
           /\ transfers[id].file_path \in DOMAIN fs) =>
             LET t == transfers[id]
                 actual == CalculateChecksum(fs[t.file_path])
             IN  /\ ftOut'.ok
                 /\ ftOut'.value = [transfer_id |-> id,
                                    success |-> actual = t.checksum,
                                    checksum |-> actual]
                 /\ fs' = fs
                 /\ DOMAIN transfers' = DOMAIN transfers
                 /\ transfers'[id] = [t EXCEPT !.is_complete = (actual = t.checksum)]]_vars

\* complete_transfer has refused a receiver's transfer that holds some but not
\* all of its chunks, and the transfer is still there to take the rest.
C23_Witness ==
    /\ ReceivingRemote
    /\ ftOut.op = "complete_transfer"
    /\ ftOut.ok
    /\ ~ftOut.value.success
    /\ ftOut.value.checksum # transfers[RemoteId].checksum
    /\ ~transfers[RemoteId].is_complete
    /\ \E i \in 1..transfers[RemoteId].total_chunks :
           transfers[RemoteId].received_chunks[i]
    /\ \E i \in 1..transfers[RemoteId].total_chunks :
           ~transfers[RemoteId].received_chunks[i]

\* C25: the orchestrator's handling of a MeetingChatMessage emits
\* meeting-chat-received and leaves users, messages, groups, group members
\* and group messages as they were.
C25_MeetingChatNotStored ==
    [][ConsumedStep("MeetingChatMessage") =>
          /\ users' = users
          /\ messages' = messages
          /\ groups' = groups
          /\ groupMembers' = groupMembers
          /\ groupMessages' = groupMessages
          /\ sigOut'.emits = <<"meeting-chat-received">>
          /\ sigOut'.sent = <<>>]_vars

\* A meeting chat message of a sender the Store has no row of was handled,
\* beside rows of other messages.
C25_Witness ==
    /\ sigOut.op = "consume"
    /\ sigOut.msg.type = "MeetingChatMessage"
    /\ sigOut.emits = <<"meeting-chat-received">>
    /\ sigOut.msg.from \notin Ids(users)
    /\ sigOut.msg.from \in DOMAIN sigPeers

\* ---------------------------------------------------- properties: messages

\* the row of one id before a step and after it
SameButFlags(old, new) ==
    /\ new.id = old.id
    /\ new.sender_id = old.sender_id
    /\ new.receiver_id = old.receiver_id
    /\ new.content = old.content
    /\ new.message_type = old.message_type
    /\ new.created_at = old.created_at
    /\ old.is_read => new.is_read
    /\ old.is_delivered => new.is_delivered

\* C27: across every Store operation, a message row that exists before and
\* after keeps its id, sender_id, receiver_id, content, message_type and
\* created_at; only is_read, is_delivered and file_path change, and a flag that
\* is set is never cleared. There is one row per id.
C27_MessagesAppendOnly ==
    [][ /\ \A old \in messages : \A new \in messages' :
              new.id = old.id => SameButFlags(old, new)
        /\ \A a \in messages' : \A b \in messages' : a.id = b.id => a = b ]_vars

\* a row created undelivered that was since read, delivered and given a path,
\* after a second create_message for its id with another text
C27_Witness ==
    /\ sigOut.op = "create_message"
    /\ sigOut.msg.id = "m1"
    /\ \E r \in messages :
          /\ r.id = "m1"
          /\ r.content # sigOut.msg.content
          /\ r.is_read /\ r.is_delivered /\ ~sigOut.msg.is_delivered
          /\ r.file_path # NoneStr

\* ------------------------------------------------------- properties: users

\* the row INSERT ... VALUES (?1,?2,?1,?3,NULL,'','',?4,1,?4) writes
PeerRowCreated(a) ==
    [id |-> a.id, username |-> a.username, public_key |-> a.public_key,
     avatar_path |-> NoAvatar, bio |-> "", designation |-> "",
     last_seen |-> a.now_str, is_online |-> TRUE, created_at |-> a.now_str]

\* a step of upsert_peer_as_user that reports its arguments
UpsertStep ==
    /\ sigOut'.op = "upsert_peer_as_user"
    /\ "now_str" \in DOMAIN sigOut'.msg

\* C24: upsert_peer_as_user(id, name, pubkey?) leaves exactly one row of that
\* id: a new row when there was none, and otherwise the old row with the
\* username of the call, online, last_seen refreshed, the key of the call when
\* one is given and the known key when none is, and the avatar, bio,
\* designation and created_at it had. No other row changes.
C24_UpsertPeerFrame ==
    [][ UpsertStep =>
          LET a == sigOut'.msg
              after == {r \in users' : r.id = a.id}
          IN  /\ Cardinality(after) = 1
              /\ {r \in users' : r.id # a.id} = {r \in users : r.id # a.id}
              /\ \A new \in after :
                    /\ new.username = a.username
                    /\ new.is_online
                    /\ new.last_seen = a.now_str
                    /\ a.id \notin Ids(users) => new = PeerRowCreated(a)
                    /\ \A old \in users : old.id = a.id =>
                          /\ new.public_key = IF a.public_key = NoKey
                                              THEN old.public_key ELSE a.public_key
                          /\ new.avatar_path = old.avatar_path
                          /\ new.bio = old.bio
                          /\ new.designation = old.designation
                          /\ new.created_at = old.created_at ]_vars

\* an upsert without a key has just refreshed a row that carries a key, a
\* bio, a designation and an avatar, and was created earlier
C24_Witness ==
    /\ sigOut.op = "upsert_peer_as_user"
    /\ "now_str" \in DOMAIN sigOut.msg
    /\ sigOut.msg.public_key = NoKey
    /\ \E r \in users :
          /\ r.id = sigOut.msg.id
          /\ r.public_key # NoKey
          /\ r.bio # "" /\ r.designation # ""
          /\ r.avatar_path # NoAvatar
          /\ r.last_seen = sigOut.msg.now_str
          /\ r.created_at # r.last_seen

\* --------------------------------------------------- properties: device id

\* the text stored under device_id, if it is one AppState::new would keep
Persisted(S) == GetSetting(S, "device_id") \notin {NoneStr, ""}

\* C26: the device id is assigned once: all calls of AppState::new over one
\* Store return the same id, and a stored, non-empty device id is never
\* replaced by a generated one.
C26_DeviceIdAssignedOnce ==
    /\ [](Cardinality(issued) <= 1)
    /\ [][ (Persisted(settings) /\ \E p \in Procs : /\ boot[p].pc = "generate"
                                                    /\ boot'[p].pc = "up")
              => GetSetting(settings', "device_id") = GetSetting(settings, "device_id")
         ]_vars

\* ------------------------------------------------- properties: file server

\* the file id of a URL under /file/
UrlFileId(url) == TrimSlashes(StripPrefix(url, FileUrlPrefix))

\* a GET of a URL under /file/ has just been answered
FileRequestStep ==
    /\ srvOut'.op = "request"
    /\ srvOut'.method = "GET"
    /\ StartsWith(srvOut'.url, FileUrlPrefix)

\* C28: GET /file/<id> answers with the registered blob and the indexed mime
\* if <id> is registered and its path can be read; otherwise with a readable
\* file of the storage directory whose name starts with <id> and the mime
\* guessed from its name; otherwise with 404. What is served is the content
\* of a registered path or of a file under the storage directory, and an id
\* that is neither registered nor a prefix of a stored file's name gets 404.
C28_MediaServerLookup ==
    [][ FileRequestStep =>
          LET id == UrlFileId(srvOut'.url)
              registered == id \in DOMAIN fileIndex /\ Readable(fs, fileIndex[id].path)
              stored == {path \in DOMAIN fs : /\ path.dir = StorageDir
                                              /\ StartsWith(path.name, id)}
              served == srvOut'
          IN  /\ registered =>
                    /\ served.status = 200
                    /\ served.body = fs[fileIndex[id].path]
                    /\ served.content_type = fileIndex[id].mime_type
              /\ (~registered /\ \E path \in stored : Readable(fs, path)) =>
                    /\ served.status = 200
                    /\ \E path \in stored :
                          /\ Readable(fs, path)
                          /\ served.body = fs[path]
                          /\ served.content_type = GuessMime(path.name)
              /\ (~registered /\ ~ \E path \in stored : Readable(fs, path)) =>
                    served.status = 404
              /\ served.status = 200 =>
                    /\ served.path \in DOMAIN fs
                    /\ served.body = fs[served.path]
                    /\ \/ served.path.dir = StorageDir
                       \/ \E k \in DOMAIN fileIndex : fileIndex[k].path = served.path
              /\ (id \notin DOMAIN fileIndex /\ stored = {}) => served.status = 404
        ]_vars

\* after a restart a file outside the storage directory is on disk; an id
\* that is a proper prefix of a stored name, and is not registered, has been
\* served that stored file with the mime of its extension
C28_Witness ==
    /\ srvOut.op = "request"
    /\ srvOut.method = "GET"
    /\ StartsWith(srvOut.url, FileUrlPrefix)
    /\ srvOut.status = 200
    /\ UrlFileId(srvOut.url) = <<"f">>
    /\ <<"f">> \notin DOMAIN fileIndex
    /\ srvOut.path.dir = StorageDir
    /\ srvOut.path.name # <<"f">>
    /\ srvOut.content_type = "image/png"
    /\ [dir |-> AvatarsDir, name |-> AvatarName] \in DOMAIN fs

\* ------------------------------------------------- properties: envelopes

\* C34: decrypt(peer, envelope) does not use the envelope's
\* sender_public_key: the result is the one the session key stored for the
\* peer, the nonce and the ciphertext give, whatever text the envelope names
\* as the sender's key, and decrypt leaves the session map as it is.
C34_SenderKeyUnused ==
    [][ cryOut'.op = "decrypt" =>
          /\ sessions' = sessions
          /\ \A text \in SenderKeyTexts :
                LET result == DecryptEnvelope(SessionsOf(cryOut'.node), cryOut'.peer,
                                              [wire EXCEPT !.sender_public_key = text])
                IN  /\ cryOut'.ok = result.ok
                    /\ cryOut'.value = result.value
                    /\ cryOut'.err = result.err ]_vars

\* an envelope whose sender_public_key is no longer the sealer's key has
\* been opened to the plaintext that was sealed
C34_Witness ==
    /\ cryOut.op = "decrypt" /\ cryOut.ok
    /\ wire # NoMsg
    /\ wire.origin.by \in DOMAIN keypair
    /\ wire.sender_public_key # PublicKeyB64(keypair[wire.origin.by])
    /\ HasSession(cryOut.node, cryOut.peer)
    /\ Base64Encode(sessions[cryOut.node][cryOut.peer].peer_public_key)
          # wire.sender_public_key
    /\ cryOut.value = wire.origin.plaintext
    /\ cryOut.value # <<>>

\* -------------------------------------------------- properties: sessions

\* the key of every session is the one the device's current secret key and
\* the session's stored peer key derive
SessionKeysCurrent ==
    \A n \in DOMAIN sessions : \A peer_id \in DOMAIN sessions[n] :
        /\ n \in DOMAIN keypair
        /\ sessions[n][peer_id].shared_secret =
              DeriveSessionKey(keypair[n].secret_key, sessions[n][peer_id].peer_public_key)

\* C40: under any sequence of generate_keypair, load_keypair,
\* establish_session, remove_session and clear_sessions every session key
\* equals the key derived from the device's current secret key and the
\* session's stored peer public key; remove_session removes that peer's
\* session and nothing else, also when there is none, and encrypt and decrypt
\* for a peer without a session fail with the missing-session error.
C40_SessionKeysDerived ==
    /\ []SessionKeysCurrent
    /\ [][ /\ cryOut'.op = "remove_session" =>
                \A n \in DOMAIN sessions :
                    sessions'[n] = IF n = cryOut'.node
                                   THEN Del(sessions[n], cryOut'.peer) ELSE sessions[n]
           /\ (cryOut'.op \in {"encrypt", "decrypt"}
                 /\ ~HasSession(cryOut'.node, cryOut'.peer))
                => ~cryOut'.ok /\ cryOut'.err = "No session established with peer"
         ]_vars

\* ---------------------------------------------------- properties: chunks

\* the positions at which two contents of a file differ
ChangedAt(old, new) ==
    {i \in 1..(IF Len(new) > Len(old) THEN Len(new) ELSE Len(old)) :
        i > Len(old) \/ i > Len(new) \/ old[i] # new[i]}

\* C39: receive_chunk writes only into the local file of a receiver's
\* transfer and only at offsets below file_size: no other file changes, the
\* source file of a transfer registered by prepare_send stays as it is, and a
\* chunk whose index is total_chunks or more changes neither file nor bitmap.
C39_ReceiveChunkWrites ==
    [][ ftOut'.op = "receive_chunk" =>
          LET chunk == ftOut'.arg
              id == chunk.transfer_id
          IN  /\ DOMAIN fs' = DOMAIN fs
              /\ \A path \in DOMAIN fs : fs'[path] # fs[path] =>
                    /\ id \in DOMAIN transfers
                    /\ ~transfers[id].is_sender
                    /\ transfers[id].file_path = path
                    /\ \A i \in ChangedAt(fs[path], fs'[path]) :
                          i <= transfers[id].file_size
              /\ \A t \in DOMAIN transfers : transfers[t].is_sender =>
                    (transfers[t].file_path \in DOMAIN fs =>
                        fs'[transfers[t].file_path] = fs[transfers[t].file_path])
              /\ (id \in DOMAIN transfers
                    /\ chunk.chunk_index >= transfers[id].total_chunks)
                   => fs' = fs /\ transfers' = transfers ]_vars

\* --------------------------------------------------------------------
\* C38: the orchestrator sends a DeliveryAck for a received ChatMessage only
\* if a row with the message's id is in the local store after the handler
\* ran; when create_message fails, no acknowledgement leaves.
C38_AckOnlyIfStored ==
    (sigOut.op = "consume" /\ sigOut.msg.type = "ChatMessage") =>
        /\ sigOut.sent # <<>> => sigOut.msg.id \in Ids(messages)
        /\ ~sigOut.ok => sigOut.sent = <<>>

\* --------------------------------------------------------------------
\* C36: when DiscoveryManager::start returns an error from making the
\* socket, the manager is left not running and without threads, so that a
\* later start tries again.
C36_FailedStartNotRunning ==
    (discOut.op = "start_discovery" /\ ~discOut.ok /\ discOut.value = "socket") =>
        /\ ~disc[discOut.node].running
        /\ ~disc[discOut.node].listener
        /\ ~disc[discOut.node].announcer

\* --------------------------------------------------------------------
\* a thread of run g is alive
Alive(g) == g \in threads.listeners \cup threads.announcers

\* C35: at any time at most one listener thread and at most one announcer
\* thread of the manager are alive, whatever the order of start, stop and
\* restart_discovery; a start that finds the manager running returns
\* Ok(false) and spawns nothing.
C35_OneGenerationOfThreads ==
    /\ [](/\ Cardinality(threads.listeners) <= 1
          /\ Cardinality(threads.announcers) <= 1)
    /\ [][(/\ \/ discOut'.op = "start_discovery"
              \/ (discOut'.op = "restart_discovery" /\ threads.pause # <<>>)
           /\ discOut'.ok
           /\ disc[LocalId].running)
            => /\ discOut'.value = "Ok(false)"
               /\ threads'.listeners = threads.listeners
               /\ threads'.announcers = threads.announcers
               /\ threads'.consumers = threads.consumers]_vars

\* C33: every stop() of a running manager is followed, at some time, by the
\* end of the listener and of the announcer it found, and by exactly one Bye
\* of each announcer, which carries the local peer info of its run; a start
\* soon after the stop does not change that.
C33_StopEndsThreadsWithOneBye ==
    \A g \in 1..MaxRuns :
        (g \in threads.stopped)
            ~> (/\ g <= threads.run
                /\ ~Alive(g)
                /\ threads.byes[g] = <<threads.info[g]>>)

\* C37: whenever discovery runs after start_discovery has returned Ok, a
\* consumer thread is alive to drain the event channel, also after
\* restart_discovery.
C37_ConsumerWhileRunning ==
    (threads.called /\ disc[LocalId].running /\ threads.listeners # {})
        => threads.consumers # {}

\* --------------------------------------------------------------------
\* C32: whatever the threads that call dev_log, the log file gets at most
\* one line per one-second timestamp value, and every call prints its line
\* to stdout.
C32_OneWritePerSecond ==
    /\ \A i, j \in 1..Len(devLog.file) :
          i # j => devLog.file[i] # devLog.file[j]
    /\ \A t \in LogThreads :
          devLog.call[t].pc # "idle"
              => \E i \in 1..Len(devLog.stdout) : devLog.stdout[i] = devLog.call[t].ts

\* --------------------------------------------------------------------
\* C31: when cancel_transfer runs while a receive_chunk for the same
\* transfer is between its steps, receive_chunk never returns success =
\* true for a chunk it wrote after the transfer's entry and its partial file
\* were removed.
C31_NoSuccessAfterRemoval ==
    [][(/\ receiving.pc = "update"
        /\ ftOut'.op = "receive_chunk"
        /\ ftOut'.ok
        /\ ftOut'.value.success)
         => ~receiving.gone]_vars

====
